---- MODULE Spec2Model ----
(***************************************************************************)
(* The approval queue orchestrator of the App component                    *)
(* (src/src/ErrorBoundary.tsx): the wallet session effect, scanAll,        *)
(* triggerAutoRun, runAll, retryOne, ensureChain and markApproved.         *)
(*                                                                         *)
(* JavaScript runs one continuation at a time, so every action below is    *)
(* one continuation: the code from one resumption (an event, or an await   *)
(* that settles) to the next await.  Array indexes are 1-based here (the   *)
(* source's idx 0 is index 1) and currentIdx = 0 stands for null.          *)
(***************************************************************************)
EXTENDS Integers, Sequences, FiniteSets, TLC

\* ------------------------------------------------------------------ bounds
NTokens == 2
MaxUserEvents == 2
MaxRuns == 2
MaxAmount == 1
MaxAllowance == 0
NScanTokens == 3
MaxReadFailures == 2
MaxUsd == 1
MaxHalfDays == 4
MaxBaseHalfDays == 2
MaxControlHalfDays == 3

\* ----------------------------------------------------------- configuration
NoAddr == "none"
Addrs == {"A", "B"}
Runs == 1..MaxRuns
\* Activations are named <<"run", r>> and <<"retry">>; NoProc is no activation.
RunProc(r) == <<"run", r>>
RetryProc == <<"retry">>
NoProc == <<>>

\* src/unnamed/part_000 (config/tokens.ts): each token belongs to one chain.
Chains == {1, 2}
ChainOf(t) == ((t - 1) % 2) + 1
\* src/src/config/routers.ts: every configured chain has a router.
ROUTERS == [c \in Chains |-> <<"router", c>>]
HasRouter(c) == c \in DOMAIN ROUTERS

\* A token address as configured (checksummed, mixed case) and lower-cased.
TokAddr(t) == [hex |-> t, mixed |-> TRUE]
ToLowerCase(a) == [a EXCEPT !.mixed = FALSE]
approvedKey(chainId, addr) == <<chainId, ToLowerCase(addr)>>

\* ------------------------------------------------------------------ errors
\* An error value: code and cause.code are {} when undefined, {n} otherwise;
\* message is a sequence of words.
ErrUserCode == [code |-> {4001}, cause |-> {}, message |-> <<"Request", "denied">>]
ErrUserMsg == [code |-> {}, cause |-> {}, message |-> <<"User", "rejected", "the", "request">>]
ErrUserDisapproved == [code |-> {}, cause |-> {}, message |-> <<"MetaMask", "User", "Disapproved", "chain">>]
ErrUserCause == [code |-> {}, cause |-> {4001}, message |-> <<"Transaction", "failed">>]
ErrPending == [code |-> {-32002}, cause |-> {}, message |-> <<"Request", "already", "pending">>]
ErrRevert == [code |-> {-32603}, cause |-> {}, message |-> <<"execution", "reverted">>]
UserRejections == {ErrUserCode, ErrUserMsg, ErrUserDisapproved, ErrUserCause}
\* What signTypedData / writeContractAsync and switchChainAsync may throw.
WalletErrors == UserRejections \cup {ErrRevert}
SwitchErrors == UserRejections \cup {ErrPending}

LowerWord(w) ==
  CASE w = "User" -> "user"
    [] w = "Disapproved" -> "disapproved"
    [] w = "Request" -> "request"
    [] w = "MetaMask" -> "metamask"
    [] w = "Write" -> "write"
    [] OTHER -> w
toLowerCase(s) == [i \in 1..Len(s) |-> LowerWord(s[i])]
includes(s, sub) ==
  \E i \in 1..(Len(s) - Len(sub) + 1) : SubSeq(s, i, i + Len(sub) - 1) = sub

\* A detection by the error code alone, without the message substrings.
isUserRejectedByCode(error) ==
  LET code == IF error.code # {} THEN error.code ELSE error.cause
  IN code = {4001}

isUserRejected(error) ==
  LET code == IF error.code # {} THEN error.code ELSE error.cause
      message == toLowerCase(error.message)
  IN code = {4001} \/ includes(message, <<"user", "rejected">>)
                   \/ includes(message, <<"user", "disapproved">>)

\* --------------------------------------------------------------- messages
NoMsg == <<>>
NOT_ELIGIBLE_MESSAGE == <<"NOT_ELIGIBLE_MESSAGE">>
MsgAllComplete == <<"All approvals complete.">>
MsgConfirmSwitch == <<"Please confirm the network switch in your wallet">>
MsgCancelled == <<"Approval cancelled - waiting for confirmation">>

\* ------------------------------------------------------------------- state
VARIABLES
  address,        \* useAccount().address (NoAddr when not connected)
  walletClient,   \* useWalletClient().data is defined
  cb,             \* the render values closed over by triggerAutoRun's runAll
  sessionRef, lastAddressRef, scannedOnce, running,
  rows,           \* rows and rowsRef.current (always written together)
  msg, showModal, modalText, currentIdx, approvedCount, totalEligible, loading,
  approvedRef,    \* the approved set (and its localStorage copy)
  payoutStore,    \* localStorage payout schedule per address: its token list
  switching,      \* owner of the promise in switching.current, or NoProc
  effLen,         \* rows.length as the auto-run effect last saw it
  scans,          \* scanAll calls whose reads are in flight
  run,            \* the runAll activations
  retry,          \* the retryOne activation
  userEvents,     \* how many wallet and button events have happened
  out,            \* what the last continuation sent out (events, requests)
  configured,     \* how many tokens the build's TOKENS table lists
  stats,          \* the per-chain statistics of the last scan
  rpc,            \* the read requests of the last scan, with their answers
  summary,        \* admin page: the wallet's base schedule (payoutSummaries)
  payoutControls, \* admin page: the wallet's control (NoControl: no entry)
  nowTs,          \* Date.now(); on the admin page the clock it renders with
  ops,            \* admin page: the clicks so far, each with the row it was given
  fetched         \* admin page: the stored control fetchPayoutControls answers with

vars == <<address, walletClient, cb, sessionRef, lastAddressRef, scannedOnce,
          running, rows, msg, showModal, modalText, currentIdx, approvedCount,
          totalEligible, loading, approvedRef, payoutStore, switching, effLen,
          scans, run, retry, userEvents, out, configured, stats, rpc,
          summary, payoutControls, nowTs, ops, fetched>>

isConnected == address # NoAddr

NoRow == [tok |-> 0, status |-> "none", balance |-> 0, allowance |-> 0]
IdleRun == [pc |-> "idle", sessionId |-> 0, address |-> NoAddr, walletClient |-> FALSE,
            queue |-> <<>>, idx |-> 0, waitOn |-> NoProc, res |-> {},
            permit |-> "none", nswitch |-> 0, ntx |-> 0]
DoneRun == [IdleRun EXCEPT !.pc = "done"]
IdleRetry == [pc |-> "idle", sessionId |-> 0, address |-> NoAddr, walletClient |-> FALSE,
              target |-> NoRow, index |-> 0, waitOn |-> NoProc, res |-> {}]

\* The variables a runAll or retryOne continuation may write, as one record.
Shared ==
  [running |-> running, rows |-> rows, msg |-> msg, showModal |-> showModal,
   modalText |-> modalText, currentIdx |-> currentIdx,
   approvedCount |-> approvedCount, approvedRef |-> approvedRef,
   payoutStore |-> payoutStore, switching |-> switching, out |-> <<>>]

Commit(w) ==
  /\ running' = w.running
  /\ rows' = w.rows
  /\ msg' = w.msg
  /\ showModal' = w.showModal
  /\ modalText' = w.modalText
  /\ currentIdx' = w.currentIdx
  /\ approvedCount' = w.approvedCount
  /\ approvedRef' = w.approvedRef
  /\ payoutStore' = w.payoutStore
  /\ switching' = w.switching
  /\ out' = w.out

\* queue.splice(i, 1) / filter((_, idx) => idx !== i)
RemoveAt(s, i) == [j \in 1..(Len(s) - 1) |-> IF j < i THEN s[j] ELSE s[j + 1]]
Take(s, n) == IF Len(s) <= n THEN s ELSE SubSeq(s, 1, n)

\* ------------------------------------------------- payout store, approvals
PAYOUT_INTERVAL_MS == 86400000
\* No schedule stored for an address (normalizeSchedule gives null).
NoSchedule == [exists |-> FALSE, tokens |-> <<>>, lastApprovedAt |-> 0, nextPayoutAt |-> 0]
tokenMeta(row) == [chainId |-> ChainOf(row.tok), address |-> TokAddr(row.tok)]
metaKey(meta) == approvedKey(meta.chainId, meta.address)

RECURSIVE dropMeta(_, _)
dropMeta(tokens, meta) ==
  IF tokens = <<>> THEN <<>>
  ELSE IF metaKey(Head(tokens)) = metaKey(meta) THEN dropMeta(Tail(tokens), meta)
       ELSE <<Head(tokens)>> \o dropMeta(Tail(tokens), meta)

\* Lines 460-488.  payload is {lastApprovedAt, nextPayoutAt, tokenMeta}.
updatePayoutSchedule(store, targetAddress, payload) ==
  LET currentTokens == store[targetAddress].tokens
      nextTokens == Take(<<payload.tokenMeta>> \o dropMeta(currentTokens, payload.tokenMeta), 6)
  IN [store EXCEPT ![targetAddress] = [exists |-> TRUE, tokens |-> nextTokens,
                                       lastApprovedAt |-> payload.lastApprovedAt,
                                       nextPayoutAt |-> payload.nextPayoutAt]]

\* Lines 494-504: what markApproved hands to updatePayoutSchedule.
approvalPayload(row) ==
  [lastApprovedAt |-> nowTs, nextPayoutAt |-> nowTs + PAYOUT_INTERVAL_MS,
   tokenMeta |-> tokenMeta(row)]

\* What a continuation sends out: logAdminEvent, recordReferralApproval, and the
\* wallet requests (by names the activation that issued the request).
ApproveEvent(addr, row) ==
  [type |-> "approve", address |-> addr, token |-> row.tok, by |-> NoProc, args |-> <<>>]
ReferralCall(addr) ==
  [type |-> "referral", address |-> addr, token |-> 0, by |-> NoProc, args |-> <<>>]

\* An approval that sends its events without recording the token as approved.
markApprovedUnrecorded(w, addr, row) ==
  IF addr # NoAddr
  THEN [w EXCEPT !.payoutStore = updatePayoutSchedule(@, addr, approvalPayload(row)),
                 !.out = @ \o <<ApproveEvent(addr, row), ReferralCall(addr)>>]
  ELSE w

markApproved(w, addr, row) ==
  LET w1 == [w EXCEPT !.approvedRef =
                        @ \cup {approvedKey(ChainOf(row.tok), TokAddr(row.tok))}]
  IN IF addr # NoAddr
     THEN [w1 EXCEPT !.payoutStore = updatePayoutSchedule(@, addr, approvalPayload(row)),
                     !.out = @ \o <<ApproveEvent(addr, row), ReferralCall(addr)>>]
     ELSE w1

\* ------------------------------------------------------------------ runAll
\* Each fragment takes the shared state w and the activation's locals rec and
\* returns both as they are at the next await: [w |-> ..., r |-> ...].

\* Lines 974-988: the code after the loop, and the finally block.
Exit(w, rec) ==
  IF sessionRef = rec.sessionId
  THEN [w |-> [w EXCEPT !.msg = MsgAllComplete, !.running = FALSE,
                        !.showModal = FALSE, !.currentIdx = 0, !.rows = rec.queue],
        r |-> DoneRun]
  ELSE [w |-> [w EXCEPT !.running = FALSE], r |-> DoneRun]

SwitchRequest(me, row) ==
  [type |-> "switchChain", address |-> NoAddr, token |-> row.tok, by |-> me,
   args |-> <<ChainOf(row.tok)>>]
ApproveTx(me, row) ==
  [type |-> "approveTx", address |-> NoAddr, token |-> row.tok, by |-> me,
   args |-> <<ROUTERS[ChainOf(row.tok)], row.balance>>]
SignRequest(me, addr, row) ==
  [type |-> "signTypedData", address |-> addr, token |-> row.tok, by |-> me,
   args |-> <<ROUTERS[ChainOf(row.tok)], row.balance>>]

\* Lines 936-937 (runAll): the session check and the call of ensureChain, which
\* stores its promise in switching.current and awaits it (lines 833-846).
AfterSwitchWait(w, rec, me) ==
  IF sessionRef # rec.sessionId THEN Exit(w, rec)
  ELSE [w |-> [w EXCEPT !.switching = me,
                        !.out = @ \o <<SwitchRequest(me, rec.queue[rec.idx])>>],
        r |-> [rec EXCEPT !.pc = "switch", !.nswitch = @ + 1]]

\* Line 935: if (switching.current) await switching.current
OnChain(w, rec, me) ==
  IF w.switching # NoProc
  THEN [w |-> w, r |-> [rec EXCEPT !.pc = "waitSwitch", !.waitOn = w.switching]]
  ELSE AfterSwitchWait(w, rec, me)

\* Lines 869-932 up to the first await of an iteration.
RECURSIVE LoopTop(_, _, _)
Prepare(w, rec, me) ==
  LET token == rec.queue[rec.idx]
      w1 == [w EXCEPT !.currentIdx = rec.idx, !.showModal = TRUE,
                      !.modalText = <<"Preparing", token.tok>>]
      rec1 == [rec EXCEPT !.permit = "none", !.nswitch = 0, !.ntx = 0]
  IN IF ~HasRouter(ChainOf(token.tok))
     THEN LET q == [rec.queue EXCEPT ![rec.idx].status = "error"]
          IN IF sessionRef # rec.sessionId
             THEN Exit(w1, [rec1 EXCEPT !.queue = q])
             ELSE LoopTop([w1 EXCEPT !.rows = q],
                          [rec1 EXCEPT !.queue = q, !.idx = @ + 1], me)
     ELSE IF rec.walletClient
          THEN [w |-> w1, r |-> [rec1 EXCEPT !.pc = "probe"]]
          ELSE OnChain(w1, rec1, me)

\* Lines 867-868: the loop condition and the session check.
LoopTop(w, rec, me) ==
  IF rec.idx <= Len(rec.queue)
  THEN IF sessionRef # rec.sessionId THEN Exit(w, rec) ELSE Prepare(w, rec, me)
  ELSE Exit(w, rec)

\* A catch block that moves on to the next queue item after a user rejection.
CatchMovingOn(w, rec, error) ==
  IF isUserRejected(error)
  THEN [w |-> [w EXCEPT !.showModal = FALSE, !.modalText = MsgCancelled],
        r |-> [rec EXCEPT !.pc = "sleepRejected", !.idx = @ + 1]]
  ELSE LET q == [rec.queue EXCEPT ![rec.idx].status = "needs-approve"]
       IN [w |-> IF sessionRef = rec.sessionId
                 THEN [w EXCEPT !.rows = q, !.showModal = FALSE, !.msg = error.message]
                 ELSE w,
           r |-> [rec EXCEPT !.queue = q, !.pc = "sleepFailed"]]

\* Lines 956-972: the catch block of an iteration.
Catch(w, rec, error) ==
  IF isUserRejected(error)
  THEN [w |-> [w EXCEPT !.showModal = FALSE, !.modalText = MsgCancelled],
        r |-> [rec EXCEPT !.pc = "sleepRejected"]]
  ELSE LET q == [rec.queue EXCEPT ![rec.idx].status = "needs-approve"]
       IN [w |-> IF sessionRef = rec.sessionId
                 THEN [w EXCEPT !.rows = q, !.showModal = FALSE, !.msg = error.message]
                 ELSE w,
           r |-> [rec EXCEPT !.queue = q, !.pc = "sleepFailed"]]

\* Lines 949-955: after the permit was copied or the transaction was sent.
Success(w, rec) ==
  LET token == rec.queue[rec.idx]
      w1 == markApproved(w, rec.address, token)
      q == RemoveAt(rec.queue, rec.idx)
  IN IF sessionRef # rec.sessionId
     THEN Exit(w1, [rec EXCEPT !.queue = q])
     ELSE [w |-> [w1 EXCEPT !.rows = q, !.approvedCount = @ + 1,
                            !.modalText = <<"Approved", token.tok>>],
           r |-> [rec EXCEPT !.queue = q, !.pc = "sleepApproved"]]

\* Lines 888-891: supportsPermit2612 has answered.
AfterProbe(w, rec, me, supportsPermit) ==
  IF supportsPermit
  THEN IF sessionRef # rec.sessionId THEN Exit(w, rec)
       ELSE [w |-> [w EXCEPT !.modalText = <<"Requesting signature", rec.queue[rec.idx].tok>>],
             r |-> [rec EXCEPT !.pc = "build"]]
  ELSE OnChain(w, rec, me)

\* Lines 892-900: buildPermitTypedData has answered; on success signTypedData
\* is called, a failure is caught at line 927.
AfterBuild(w, rec, me, ok) ==
  IF ok
  THEN [w |-> [w EXCEPT !.out = @ \o <<SignRequest(me, rec.address, rec.queue[rec.idx])>>],
        r |-> [rec EXCEPT !.pc = "sign"]]
  ELSE OnChain(w, rec, me)

\* Lines 900-908 and 927-931: signTypedData has answered (res = {} on success,
\* {error} on failure).
AfterSign(w, rec, me, res) ==
  IF res = {}
  THEN IF sessionRef # rec.sessionId THEN Exit(w, rec)
       ELSE [w |-> w, r |-> [rec EXCEPT !.pc = "clip", !.permit = "signed"]]
  ELSE LET err == CHOOSE e \in res : TRUE
       IN OnChain(w, [rec EXCEPT !.permit = IF isUserRejected(err) THEN "rejected"
                                            ELSE "none"], me)

\* Lines 908-931: navigator.clipboard.writeText has answered.
AfterClip(w, rec, me, ok) ==
  IF ok THEN Success(w, [rec EXCEPT !.permit = "copied"])
  ELSE OnChain(w, rec, me)

\* Lines 845-849 and 938-946: the activation's own chain switch has settled.
AfterSwitch(w, rec, me, res) ==
  LET cleared == IF w.switching = me THEN [w EXCEPT !.switching = NoProc] ELSE w
  IN IF res = {}
     THEN IF sessionRef # rec.sessionId THEN Exit(cleared, rec)
          ELSE [w |-> [cleared EXCEPT
                         !.modalText = <<"Requesting on-chain approval", rec.queue[rec.idx].tok>>,
                         !.out = @ \o <<ApproveTx(me, rec.queue[rec.idx])>>],
                r |-> [rec EXCEPT !.pc = "tx", !.ntx = @ + 1]]
     ELSE LET err == CHOOSE e \in res : TRUE
              w1 == IF err.code = {-32002} THEN [cleared EXCEPT !.msg = MsgConfirmSwitch]
                    ELSE cleared
          IN Catch(w1, rec, err)

\* Lines 940-947: writeContractAsync has answered.
AfterTx(w, rec, res) ==
  IF res = {} THEN Success(w, rec)
  ELSE Catch(w, rec, CHOOSE e \in res : TRUE)

\* Line 935 resumed: the awaited promise of another activation has settled.
AfterWaited(w, rec, me) ==
  IF rec.res = {} THEN AfterSwitchWait(w, [rec EXCEPT !.waitOn = NoProc], me)
  ELSE Catch(w, [rec EXCEPT !.waitOn = NoProc, !.res = {}], CHOOSE e \in rec.res : TRUE)

\* Lines 328-335 and 859-868: triggerAutoRun, and runAll up to its first await.
FreeRuns == {r \in Runs : run[r].pc = "idle"}
FirstFree == CHOOSE r \in FreeRuns : \A q \in FreeRuns : r <= q
WouldRun(w) == isConnected /\ ~w.running /\ Len(w.rows) > 0 /\ cb.address # NoAddr
StartRun(w, me) ==
  LoopTop([w EXCEPT !.running = TRUE],
          [IdleRun EXCEPT !.sessionId = sessionRef, !.address = cb.address,
                          !.walletClient = cb.walletClient, !.queue = w.rows, !.idx = 1],
          me)

\* ---------------------------------------------------------------- retryOne
RetryDone(w) == [w |-> w, r |-> IdleRetry]

\* Lines 1062-1066: the catch block of retryOne.
RetryCatch(w, rec, error) ==
  RetryDone(IF sessionRef = rec.sessionId THEN [w EXCEPT !.msg = error.message] ELSE w)

\* Lines 1047-1048: the session check and the call of ensureChain.
RetryAfterSwitchWait(w, rec) ==
  IF sessionRef # rec.sessionId THEN RetryDone(w)
  ELSE [w |-> [w EXCEPT !.switching = RetryProc,
                        !.out = @ \o <<SwitchRequest(RetryProc, rec.target)>>],
        r |-> [rec EXCEPT !.pc = "switch"]]

\* Line 1046: if (switching.current) await switching.current
RetryOnChain(w, rec) ==
  IF w.switching # NoProc
  THEN [w |-> w, r |-> [rec EXCEPT !.pc = "waitSwitch", !.waitOn = w.switching]]
  ELSE RetryAfterSwitchWait(w, rec)

\* Lines 1034-1039 and 1057-1061: markApproved, then the row at index is removed.
RetrySuccess(w, rec) ==
  LET w1 == markApproved(w, rec.address, rec.target)
      next == IF rec.index <= Len(w.rows) THEN RemoveAt(w.rows, rec.index) ELSE w.rows
  IN IF sessionRef # rec.sessionId THEN RetryDone(w1)
     ELSE RetryDone([w1 EXCEPT !.rows = next, !.approvedCount = @ + 1])

\* Lines 991-1000: retryOne(target, index) up to its first await.
RetryStart(w, target, index) ==
  LET rec == [IdleRetry EXCEPT !.sessionId = sessionRef, !.address = address,
                               !.walletClient = walletClient, !.target = target,
                               !.index = index]
  IN IF address = NoAddr \/ ~HasRouter(ChainOf(target.tok)) THEN RetryDone(w)
     ELSE IF rec.walletClient THEN [w |-> w, r |-> [rec EXCEPT !.pc = "probe"]]
     ELSE RetryOnChain(w, rec)

RetryAfterProbe(w, rec, supportsPermit) ==
  IF supportsPermit THEN [w |-> w, r |-> [rec EXCEPT !.pc = "build"]]
  ELSE RetryOnChain(w, rec)

RetryAfterBuild(w, rec, ok) ==
  IF ok
  THEN [w |-> [w EXCEPT !.out = @ \o <<SignRequest(RetryProc, rec.address, rec.target)>>],
        r |-> [rec EXCEPT !.pc = "sign"]]
  ELSE RetryOnChain(w, rec)

RetryAfterSign(w, rec, res) ==
  IF res = {} THEN [w |-> w, r |-> [rec EXCEPT !.pc = "clip"]]
  ELSE RetryOnChain(w, rec)

RetryAfterClip(w, rec, ok) ==
  IF ok THEN RetrySuccess(w, rec) ELSE RetryOnChain(w, rec)

\* Lines 845-849 and 1049-1056: retryOne's own chain switch has settled.
RetryAfterSwitch(w, rec, res) ==
  LET cleared == IF w.switching = RetryProc THEN [w EXCEPT !.switching = NoProc] ELSE w
  IN IF res = {}
     THEN IF sessionRef # rec.sessionId THEN RetryDone(cleared)
          ELSE [w |-> [cleared EXCEPT !.out = @ \o <<ApproveTx(RetryProc, rec.target)>>],
                r |-> [rec EXCEPT !.pc = "tx"]]
     ELSE LET err == CHOOSE e \in res : TRUE
              w1 == IF err.code = {-32002} THEN [cleared EXCEPT !.msg = MsgConfirmSwitch]
                    ELSE cleared
          IN RetryCatch(w1, rec, err)

RetryAfterTx(w, rec, res) ==
  IF res = {} THEN RetrySuccess(w, rec)
  ELSE RetryCatch(w, rec, CHOOSE e \in res : TRUE)

RetryAfterWaited(w, rec) ==
  IF rec.res = {} THEN RetryAfterSwitchWait(w, [rec EXCEPT !.waitOn = NoProc])
  ELSE RetryCatch(w, rec, CHOOSE e \in rec.res : TRUE)

\* ----------------------------------------------------------------- scanAll
Amounts == 0..MaxAmount
Allowances == 0..MaxAllowance
CHAINS_DEF == <<1, 2>>
Tokens == 1..configured
Reads == [Tokens -> [balance : Amounts, allowance : Allowances]]

RECURSIVE tokensFrom(_, _)
tokensFrom(c, t) ==
  IF t > configured THEN <<>>
  ELSE IF ChainOf(t) = c THEN <<t>> \o tokensFrom(c, t + 1) ELSE tokensFrom(c, t + 1)
\* TOKENS[chain.id]
TOKENS(c) == tokensFrom(c, 1)

\* Lines 715-735: the rows of one chain, split into eligible and approved.
mapped(reads, c) ==
  [i \in 1..Len(TOKENS(c)) |->
     [tok |-> TOKENS(c)[i], status |-> "pending",
      balance |-> reads[TOKENS(c)[i]].balance,
      allowance |-> reads[TOKENS(c)[i]].allowance]]
isEligible(row) == row.balance > 0 /\ row.allowance < row.balance
isAlreadyApproved(row) == row.balance > 0 /\ ~(row.allowance < row.balance)
\* Lines 644-650: a chain without tokens or without a router is not read.
isRead(c) == TOKENS(c) # <<>> /\ HasRouter(c)
eligibleItems(reads, c) == IF isRead(c) THEN SelectSeq(mapped(reads, c), isEligible) ELSE <<>>
chainApproved(reads, c) ==
  IF isRead(c) THEN SelectSeq(mapped(reads, c), isAlreadyApproved) ELSE <<>>

\* Lines 742-753: the answer of fetchUsdPrices for a chain: it threw (ok is
\* FALSE), or it lists one price for the chain's tokens (0: none listed).  A
\* row that was priced carries usd and valueUsd, {} when undefined.
PriceAnswers == [ok : BOOLEAN, usd : 0..MaxUsd]
NoPrices == [c \in Chains |-> [ok |-> FALSE, usd |-> 0]]
priceItems(items, price) ==
  IF ~price.ok THEN items
  ELSE [i \in 1..Len(items) |->
          [tok |-> items[i].tok, status |-> items[i].status,
           balance |-> items[i].balance, allowance |-> items[i].allowance,
           usd |-> IF price.usd # 0 THEN {price.usd} ELSE {},
           valueUsd |-> IF price.usd # 0 THEN {items[i].balance * price.usd} ELSE {}]]
chainItems(reads, prices, c) == priceItems(eligibleItems(reads, c), prices[c])

\* Lines 636-650 and 737-738: the statistics of a chain.
chainStat(reads, c) ==
  LET stat == [chainId |-> c, total |-> Len(TOKENS(c)), eligible |-> 0, ok |-> FALSE,
               error |-> <<>>]
  IN IF TOKENS(c) = <<>> THEN stat
     ELSE IF ~HasRouter(c) THEN [stat EXCEPT !.error = <<"Missing router">>]
     ELSE [stat EXCEPT !.eligible = Len(eligibleItems(reads, c)), !.ok = TRUE]
allStats(reads, chains) == [i \in 1..Len(chains) |-> chainStat(reads, chains[i])]

\* Lines 759-761: results.flatMap over the chains, in their order.
RECURSIVE allItemsOf(_, _, _)
allItemsOf(reads, prices, chains) ==
  IF chains = <<>> THEN <<>>
  ELSE chainItems(reads, prices, Head(chains)) \o allItemsOf(reads, prices, Tail(chains))
RECURSIVE detectedApprovedTokens(_, _)
detectedApprovedTokens(reads, chains) ==
  IF chains = <<>> THEN <<>>
  ELSE chainApproved(reads, Head(chains)) \o detectedApprovedTokens(reads, Tail(chains))

\* A filter that drops every item the approved set remembers.
RECURSIVE filterRemembered(_, _)
filterRemembered(items, approved) ==
  IF items = <<>> THEN [filtered |-> <<>>, approved |-> approved]
  ELSE LET item == Head(items)
           rest == filterRemembered(Tail(items), approved)
       IN IF approvedKey(ChainOf(item.tok), TokAddr(item.tok)) \in approved THEN rest
          ELSE [filtered |-> <<item>> \o rest.filtered, approved |-> rest.approved]

\* Lines 763-772: drop what the approved set remembers, forget what is stale.
RECURSIVE filterApproved(_, _)
filterApproved(items, approved) ==
  IF items = <<>> THEN [filtered |-> <<>>, approved |-> approved]
  ELSE LET item == Head(items)
           key == approvedKey(ChainOf(item.tok), TokAddr(item.tok))
       IN IF key \in approved /\ item.allowance >= item.balance
          THEN filterApproved(Tail(items), approved)
          ELSE LET rest == filterApproved(Tail(items), approved \ {key})
               IN [filtered |-> <<item>> \o rest.filtered, approved |-> rest.approved]

\* Lines 778-782: a stable sort, largest value first (no price: the amount).
rowValue(row) ==
  IF "valueUsd" \in DOMAIN row /\ row.valueUsd # {}
  THEN CHOOSE v \in row.valueUsd : TRUE
  ELSE row.balance
RECURSIVE insertDesc(_, _)
insertDesc(sorted, x) ==
  IF sorted = <<>> THEN <<x>>
  ELSE IF rowValue(Head(sorted)) >= rowValue(x)
       THEN <<Head(sorted)>> \o insertDesc(Tail(sorted), x)
       ELSE <<x>> \o sorted
RECURSIVE sortDesc(_)
sortDesc(s) ==
  IF s = <<>> THEN <<>>
  ELSE insertDesc(sortDesc(SubSeq(s, 1, Len(s) - 1)), s[Len(s)])

\* Lines 786-808: the tokens found approved on chain seed the payout schedule.
RECURSIVE seedSchedule(_, _, _)
seedSchedule(store, addr, detected) ==
  IF detected = <<>> THEN store
  ELSE LET meta == tokenMeta(Head(detected))
           seen == {metaKey(store[addr].tokens[i]) : i \in 1..Len(store[addr].tokens)}
           baseLast == IF store[addr].exists THEN store[addr].lastApprovedAt ELSE nowTs
           baseNext == IF store[addr].exists THEN store[addr].nextPayoutAt
                       ELSE baseLast + PAYOUT_INTERVAL_MS
       IN IF metaKey(meta) \in seen
          THEN seedSchedule(store, addr, Tail(detected))
          ELSE seedSchedule(updatePayoutSchedule(store, addr,
                              [lastApprovedAt |-> baseLast, nextPayoutAt |-> baseNext,
                               tokenMeta |-> meta]),
                            addr, Tail(detected))

\* Lines 652-713: the reads of a chain.  The network of a scan is the values on
\* chain (truth), the requests that fail (failed) and the listed prices (usd).
\* An answer is {} when the request failed and {value} otherwise.
ReadFns == {"balance", "allowance"}
FailurePoints ==
  UNION {{<<"multicall", fn, c>> : c \in Chains} \cup {<<"item", fn, t>> : t \in Tokens}
           \cup {<<"readContract", fn, t>> : t \in Tokens} : fn \in ReadFns}
    \cup {<<"prices", "usd", c>> : c \in Chains}
RECURSIVE UpTo(_, _)
UpTo(points, k) ==
  IF k = 0 THEN {{}}
  ELSE LET fewer == UpTo(points, k - 1)
       IN fewer \cup {some \cup {p} : some \in fewer, p \in points}
Failures == UpTo(FailurePoints, MaxReadFailures)
Networks(failed) ==
  [truth : [Tokens -> [balance : Amounts, allowance : Amounts]],
   failed : {failed},
   usd : [Chains -> 0..MaxUsd]]
answer(net, kind, fn, t) ==
  IF <<kind, fn, t>> \in net.failed THEN {} ELSE {net.truth[t][fn]}
\* item.status === 'success' ? BigInt(item.result) : 0n, and catch { push(0n) }
valueOf(item) == IF item = {} THEN 0 ELSE CHOOSE v \in item : TRUE

\* A read that asks again, per token, for each item of the batch that failed.
readPhaseRetrying(net, fn, c) ==
  LET tokenList == TOKENS(c)
      n == Len(tokenList)
      thrown == <<"multicall", fn, c>> \in net.failed
      response == [i \in 1..n |-> IF thrown THEN {} ELSE answer(net, "item", fn, tokenList[i])]
      single == [i \in 1..n |-> answer(net, "readContract", fn, tokenList[i])]
      again == SelectSeq([i \in 1..n |-> i], LAMBDA i : response[i] = {})
  IN [values |-> [i \in 1..n |-> IF response[i] # {} THEN valueOf(response[i])
                                 ELSE valueOf(single[i])],
      requests |-> <<[kind |-> "multicall", fn |-> fn, tok |-> 0, thrown |-> thrown,
                      answers |-> IF thrown THEN <<>> ELSE response]>> \o
        [k \in 1..Len(again) |->
           [kind |-> "readContract", fn |-> fn, tok |-> tokenList[again[k]],
            thrown |-> single[again[k]] = {}, answers |-> <<single[again[k]]>>]],
      asked |-> {<<"multicall", fn, c>>}
                  \cup (IF thrown THEN {} ELSE {<<"item", fn, tokenList[i]>> : i \in 1..n})
                  \cup {<<"readContract", fn, tokenList[again[k]]>> : k \in 1..Len(again)}]

\* Lines 662-686 (balanceOf) and 688-713 (allowance): the batched read, and one
\* read per token when the batch threw or had no success.
readPhase(net, fn, c) ==
  LET tokenList == TOKENS(c)
      n == Len(tokenList)
      thrown == <<"multicall", fn, c>> \in net.failed
      response == [i \in 1..n |-> answer(net, "item", fn, tokenList[i])]
      succeeded == ~thrown /\ \E i \in 1..n : response[i] # {}
      single == [i \in 1..n |-> answer(net, "readContract", fn, tokenList[i])]
      multicall == [kind |-> "multicall", fn |-> fn, tok |-> 0, thrown |-> thrown,
                    answers |-> IF thrown THEN <<>> ELSE response]
      items == IF thrown THEN {} ELSE {<<"item", fn, tokenList[i]>> : i \in 1..n}
  IN IF succeeded
     THEN [values |-> [i \in 1..n |-> valueOf(response[i])], requests |-> <<multicall>>,
           asked |-> {<<"multicall", fn, c>>} \cup items]
     ELSE [values |-> [i \in 1..n |-> valueOf(single[i])],
           requests |-> <<multicall>> \o
             [i \in 1..n |-> [kind |-> "readContract", fn |-> fn, tok |-> tokenList[i],
                              thrown |-> single[i] = {}, answers |-> <<single[i]>>]],
           asked |-> {<<"multicall", fn, c>>} \cup items
                       \cup {<<"readContract", fn, tokenList[i]>> : i \in 1..n}]

indexOf(tokenList, t) == CHOOSE i \in 1..Len(tokenList) : tokenList[i] = t
\* balances[index] and allowances[index] of every token (lines 715-724).
readsOf(net) ==
  [t \in Tokens |->
     [balance |-> readPhase(net, "balance", ChainOf(t)).values[indexOf(TOKENS(ChainOf(t)), t)],
      allowance |->
        readPhase(net, "allowance", ChainOf(t)).values[indexOf(TOKENS(ChainOf(t)), t)]]]
pricesOf(net) ==
  [c \in Chains |->
     IF <<"prices", "usd", c>> \in net.failed THEN [ok |-> FALSE, usd |-> 0]
     ELSE [ok |-> TRUE, usd |-> net.usd[c]]]
\* The requests a scan sends to each chain, in their order (line 740: no price
\* lookup for a chain without eligible tokens).
NoRequests == [c \in Chains |-> <<>>]
requestsOf(net, reads) ==
  [c \in Chains |->
     IF ~isRead(c) THEN <<>>
     ELSE readPhase(net, "balance", c).requests \o readPhase(net, "allowance", c).requests \o
          (IF eligibleItems(reads, c) = <<>> THEN <<>>
           ELSE <<[kind |-> "prices", fn |-> "usd", tok |-> 0,
                   thrown |-> ~pricesOf(net)[c].ok, answers |-> <<>>]>>)]

\* The network answers the requests that the scan makes: nothing else fails,
\* and no price is listed where none is asked for or the lookup fails.
\* (Which reads a scan makes depends on which requests fail, not on the values.)
readsAsked(failed) ==
  LET net == [truth |-> [t \in Tokens |-> [balance |-> 0, allowance |-> 0]],
              failed |-> failed]
  IN UNION {readPhase(net, fn, c).asked : fn \in ReadFns, c \in {k \in Chains : isRead(k)}}
pricesAsked(reads) == {c \in Chains : eligibleItems(reads, c) # <<>>}
ReadsAnswer(failed) ==
  {p \in failed : p[1] # "prices"} \subseteq readsAsked(failed)
Answers(net, reads) ==
  /\ \A c \in Chains : <<"prices", "usd", c>> \in net.failed => c \in pricesAsked(reads)
  /\ \A c \in Chains : net.usd[c] # 0 => c \in pricesAsked(reads) /\ pricesOf(net)[c].ok

\* triggerAutoRun (lines 328-335): the shared state and the activations after it.
triggerAutoRun(w) ==
  IF WouldRun(w)
  THEN LET res == StartRun(w, RunProc(FirstFree))
       IN [w |-> res.w, run |-> [run EXCEPT ![FirstFree] = res.r]]
  ELSE [w |-> w, run |-> run]
\* A behaviour of the model has at most MaxRuns activations of runAll.
CanTrigger(w) == WouldRun(w) => FreeRuns # {}

\* Lines 310-326: resetSessionState.
resetSessionState(w) ==
  [w EXCEPT !.running = FALSE, !.rows = <<>>, !.approvedCount = 0, !.currentIdx = 0,
            !.showModal = FALSE, !.modalText = <<>>, !.msg = NoMsg]

\* --------------------------------------------------------- payout controls
\* src/src/utils/payoutControls.ts.  Times are milliseconds; an optional number
\* is {} when undefined and {n} otherwise; a control that is undefined is the
\* record without any field, NoControl.
DAY_MS == 86400000
the(opt) == CHOOSE v \in opt : TRUE
orElse(opt, default) == IF opt = {} THEN default ELSE the(opt)
Max(a, b) == IF a >= b THEN a ELSE b
Min(a, b) == IF a <= b THEN a ELSE b
NoControl ==
  [paused |-> FALSE, pauseRemainingMs |-> {}, resumeAt |-> {}, adjustedNextPayoutAt |-> {},
   adjustedLastApprovedAt |-> {}, cycleStartAt |-> {}, cycleMs |-> {}]
NoOptions == [freezePaused |-> {}]

\* sanitizeControlState keeping a cycle length without a cycle start.
sanitizeKeepingCycleMs(control) ==
  LET hasPause == control.paused
  IN [paused |-> hasPause,
      pauseRemainingMs |-> IF hasPause THEN {Max(0, v) : v \in control.pauseRemainingMs} ELSE {},
      resumeAt |-> IF hasPause THEN {Max(0, v) : v \in control.resumeAt} ELSE {},
      adjustedNextPayoutAt |-> control.adjustedNextPayoutAt,
      adjustedLastApprovedAt |-> control.adjustedLastApprovedAt,
      cycleStartAt |-> control.cycleStartAt,
      cycleMs |-> {v \in control.cycleMs : v > 0}]

\* Lines 168-217.
sanitizeControlState(control) ==
  LET hasPause == control.paused
      hasCycle == control.cycleStartAt # {}
  IN [paused |-> hasPause,
      pauseRemainingMs |-> IF hasPause THEN {Max(0, v) : v \in control.pauseRemainingMs} ELSE {},
      resumeAt |-> IF hasPause THEN {Max(0, v) : v \in control.resumeAt} ELSE {},
      adjustedNextPayoutAt |-> control.adjustedNextPayoutAt,
      adjustedLastApprovedAt |-> control.adjustedLastApprovedAt,
      cycleStartAt |-> control.cycleStartAt,
      cycleMs |-> IF hasCycle THEN {v \in control.cycleMs : v > 0} ELSE {}]

\* Lines 238-268: when a paused control resumes.
pausedResumeAt(baseLastApprovedAt, baseNextPayoutAt, control, now, cycleMs) ==
  LET hasCycle == control.cycleStartAt # {}
      storedResumeAt == {Max(v, 0) : v \in control.resumeAt}
      storedRemaining == {Max(v, 0) : v \in control.pauseRemainingMs}
      safeCycleMs == IF cycleMs > 0 THEN cycleMs ELSE DAY_MS
      normalizedStart == Max(baseLastApprovedAt, the(control.cycleStartAt))
      elapsed == Max(now - normalizedStart, 0)
      cyclesElapsed == elapsed \div safeCycleMs
      candidate == normalizedStart + cyclesElapsed * safeCycleMs + safeCycleMs
      adjustedNext == orElse(control.adjustedNextPayoutAt, baseNextPayoutAt)
      minTarget == orElse(control.adjustedLastApprovedAt, baseLastApprovedAt) + 1000
  IN IF storedResumeAt # {} THEN the(storedResumeAt)
     ELSE IF storedRemaining # {} THEN now + the(storedRemaining)
     ELSE IF hasCycle THEN (IF candidate > now THEN candidate ELSE now + safeCycleMs)
     ELSE Max(Max(adjustedNext, minTarget), now)

\* derivePaused counting the remaining time down while paused.
derivePausedDrifting(baseLastApprovedAt, baseNextPayoutAt, control, now, freezePaused, cycleMs) ==
  LET hasCycle == control.cycleStartAt # {}
      safeCycleMs == IF cycleMs > 0 THEN cycleMs ELSE DAY_MS
      targetResumeAt == pausedResumeAt(baseLastApprovedAt, baseNextPayoutAt, control, now, cycleMs)
  IN [lastApprovedAt |-> IF hasCycle THEN Max(baseLastApprovedAt, targetResumeAt - safeCycleMs)
                         ELSE orElse(control.adjustedLastApprovedAt, baseLastApprovedAt),
      nextPayoutAt |-> targetResumeAt,
      remaining |-> Max(targetResumeAt - now, 0),
      resumeAt |-> targetResumeAt,
      status |-> "paused",
      isCycle |-> hasCycle,
      cycleMs |-> IF hasCycle THEN safeCycleMs ELSE cycleMs]

\* derivePaused with a pause that ends by itself when its resume time comes.
derivePausedExpiring(baseLastApprovedAt, baseNextPayoutAt, control, now, freezePaused, cycleMs) ==
  LET hasCycle == control.cycleStartAt # {}
      storedRemaining == {Max(v, 0) : v \in control.pauseRemainingMs}
      safeCycleMs == IF cycleMs > 0 THEN cycleMs ELSE DAY_MS
      targetResumeAt == pausedResumeAt(baseLastApprovedAt, baseNextPayoutAt, control, now, cycleMs)
      dynamicRemaining == Max(targetResumeAt - now, 0)
  IN [lastApprovedAt |-> IF hasCycle THEN Max(baseLastApprovedAt, targetResumeAt - safeCycleMs)
                         ELSE orElse(control.adjustedLastApprovedAt, baseLastApprovedAt),
      nextPayoutAt |-> targetResumeAt,
      remaining |-> IF freezePaused THEN orElse(storedRemaining, dynamicRemaining)
                    ELSE dynamicRemaining,
      resumeAt |-> targetResumeAt,
      status |-> IF now >= targetResumeAt THEN "ready" ELSE "paused",
      isCycle |-> hasCycle,
      cycleMs |-> IF hasCycle THEN safeCycleMs ELSE cycleMs]

\* Lines 237-282: the control is paused.
derivePaused(baseLastApprovedAt, baseNextPayoutAt, control, now, freezePaused, cycleMs) ==
  LET hasCycle == control.cycleStartAt # {}
      storedRemaining == {Max(v, 0) : v \in control.pauseRemainingMs}
      safeCycleMs == IF cycleMs > 0 THEN cycleMs ELSE DAY_MS
      targetResumeAt == pausedResumeAt(baseLastApprovedAt, baseNextPayoutAt, control, now, cycleMs)
      dynamicRemaining == Max(targetResumeAt - now, 0)
  IN [lastApprovedAt |-> IF hasCycle THEN Max(baseLastApprovedAt, targetResumeAt - safeCycleMs)
                         ELSE orElse(control.adjustedLastApprovedAt, baseLastApprovedAt),
      nextPayoutAt |-> targetResumeAt,
      remaining |-> IF freezePaused THEN orElse(storedRemaining, dynamicRemaining)
                    ELSE dynamicRemaining,
      resumeAt |-> targetResumeAt,
      status |-> "paused",
      isCycle |-> hasCycle,
      cycleMs |-> IF hasCycle THEN safeCycleMs ELSE cycleMs]

\* deriveCycle leaving the base schedule in place until the cycle starts.
deriveCycleKeepingBase(baseLastApprovedAt, baseNextPayoutAt, control, now, cycleMs) ==
  LET safeCycleMs == IF cycleMs > 0 THEN cycleMs ELSE DAY_MS
      start == the(control.cycleStartAt)
      lastApprovedAt == IF now < start THEN baseLastApprovedAt
                        ELSE Max(baseLastApprovedAt,
                                 start + ((now - start) \div safeCycleMs) * safeCycleMs)
      nextPayoutAt == IF now < start THEN baseNextPayoutAt ELSE lastApprovedAt + safeCycleMs
  IN [lastApprovedAt |-> lastApprovedAt,
      nextPayoutAt |-> nextPayoutAt,
      remaining |-> Max(nextPayoutAt - now, 0),
      resumeAt |-> nextPayoutAt,
      status |-> "running",
      isCycle |-> TRUE,
      cycleMs |-> safeCycleMs]

\* deriveCycle without the clamp to the base approval time.
deriveCycleUnclamped(baseLastApprovedAt, baseNextPayoutAt, control, now, cycleMs) ==
  LET safeCycleMs == IF cycleMs > 0 THEN cycleMs ELSE DAY_MS
      start == the(control.cycleStartAt)
      lastApprovedAt == IF now < start THEN start - safeCycleMs
                        ELSE start + ((now - start) \div safeCycleMs) * safeCycleMs
      nextPayoutAt == IF now < start THEN start ELSE lastApprovedAt + safeCycleMs
  IN [lastApprovedAt |-> lastApprovedAt,
      nextPayoutAt |-> nextPayoutAt,
      remaining |-> Max(nextPayoutAt - now, 0),
      resumeAt |-> nextPayoutAt,
      status |-> "running",
      isCycle |-> TRUE,
      cycleMs |-> safeCycleMs]

\* deriveCycle with a cycle that runs once and does not roll over.
deriveCycleOnce(baseLastApprovedAt, baseNextPayoutAt, control, now, cycleMs) ==
  LET safeCycleMs == IF cycleMs > 0 THEN cycleMs ELSE DAY_MS
      start == the(control.cycleStartAt)
      cyclesElapsed == (now - start) \div safeCycleMs
      last1 == Max(baseLastApprovedAt, start + cyclesElapsed * safeCycleMs)
      last2 == Max(baseLastApprovedAt, start + (cyclesElapsed + 1) * safeCycleMs)
      lastApprovedAt == IF now < start THEN Max(baseLastApprovedAt, start - safeCycleMs)
                        ELSE Max(baseLastApprovedAt, start)
      nextPayoutAt == IF now < start THEN start ELSE lastApprovedAt + safeCycleMs
  IN [lastApprovedAt |-> lastApprovedAt,
      nextPayoutAt |-> nextPayoutAt,
      remaining |-> Max(nextPayoutAt - now, 0),
      resumeAt |-> nextPayoutAt,
      status |-> "running",
      isCycle |-> TRUE,
      cycleMs |-> safeCycleMs]

\* deriveCycle stepping the approval time on by one cycle at a time.
deriveCycleStepping(baseLastApprovedAt, baseNextPayoutAt, control, now, cycleMs) ==
  LET safeCycleMs == IF cycleMs > 0 THEN cycleMs ELSE DAY_MS
      start == the(control.cycleStartAt)
      last1 == Max(baseLastApprovedAt, start)
      last2 == last1 + safeCycleMs
      lastApprovedAt == IF now < start THEN Max(baseLastApprovedAt, start - safeCycleMs)
                        ELSE IF last1 + safeCycleMs <= now THEN last2 ELSE last1
      nextPayoutAt == IF now < start THEN start ELSE lastApprovedAt + safeCycleMs
  IN [lastApprovedAt |-> lastApprovedAt,
      nextPayoutAt |-> nextPayoutAt,
      remaining |-> Max(nextPayoutAt - now, 0),
      resumeAt |-> nextPayoutAt,
      status |-> "running",
      isCycle |-> TRUE,
      cycleMs |-> safeCycleMs]

\* Lines 283-304: a recurring cycle that is not paused.
deriveCycle(baseLastApprovedAt, baseNextPayoutAt, control, now, cycleMs) ==
  LET safeCycleMs == IF cycleMs > 0 THEN cycleMs ELSE DAY_MS
      start == the(control.cycleStartAt)
      cyclesElapsed == (now - start) \div safeCycleMs
      last1 == Max(baseLastApprovedAt, start + cyclesElapsed * safeCycleMs)
      last2 == Max(baseLastApprovedAt, start + (cyclesElapsed + 1) * safeCycleMs)
      lastApprovedAt == IF now < start THEN Max(baseLastApprovedAt, start - safeCycleMs)
                        ELSE IF last1 + safeCycleMs <= now THEN last2 ELSE last1
      nextPayoutAt == IF now < start THEN start ELSE lastApprovedAt + safeCycleMs
  IN [lastApprovedAt |-> lastApprovedAt,
      nextPayoutAt |-> nextPayoutAt,
      remaining |-> Max(nextPayoutAt - now, 0),
      resumeAt |-> nextPayoutAt,
      status |-> "running",
      isCycle |-> TRUE,
      cycleMs |-> safeCycleMs]

\* deriveManual without the control's adjusted values.
deriveManualBase(baseLastApprovedAt, baseNextPayoutAt, control, now, cycleMs) ==
  LET remaining == Max(baseNextPayoutAt - now, 0)
  IN [lastApprovedAt |-> baseLastApprovedAt,
      nextPayoutAt |-> baseNextPayoutAt,
      remaining |-> remaining,
      resumeAt |-> IF remaining <= 0 THEN now ELSE baseNextPayoutAt,
      status |-> IF remaining <= 0 THEN "ready" ELSE "running",
      isCycle |-> FALSE,
      cycleMs |-> cycleMs]

\* Lines 226-231 and 305-311: no control, or a manual adjustment.
deriveManual(baseLastApprovedAt, baseNextPayoutAt, control, now, cycleMs) ==
  LET nextPayoutAt == orElse(control.adjustedNextPayoutAt, baseNextPayoutAt)
      remaining == Max(nextPayoutAt - now, 0)
  IN [lastApprovedAt |-> orElse(control.adjustedLastApprovedAt, baseLastApprovedAt),
      nextPayoutAt |-> nextPayoutAt,
      remaining |-> remaining,
      resumeAt |-> IF remaining <= 0 THEN now ELSE nextPayoutAt,
      status |-> IF remaining <= 0 THEN "ready" ELSE "running",
      isCycle |-> FALSE,
      cycleMs |-> cycleMs]

\* progress over the time from approval to payout alone.
progressOfBaseDuration(lastApprovedAt, nextPayoutAt, defaultDuration, remaining) ==
  LET totalDuration == nextPayoutAt - lastApprovedAt
      elapsed == Max(totalDuration - remaining, 0)
  IN IF totalDuration > 0
     THEN [num |-> Min(elapsed, totalDuration), den |-> totalDuration]
     ELSE [num |-> 1, den |-> 1]

\* Lines 314-318.  progress is the fraction num / den (the division is exact
\* enough: for whole numbers below 2^53 it is below 1 whenever num < den).
progressOf(lastApprovedAt, nextPayoutAt, defaultDuration, remaining) ==
  LET baseDuration == nextPayoutAt - lastApprovedAt
      totalDuration == Max(Max(baseDuration, defaultDuration), 1)
      elapsed == Max(totalDuration - remaining, 0)
  IN IF totalDuration > 0
     THEN [num |-> Min(elapsed, totalDuration), den |-> totalDuration]
     ELSE [num |-> 1, den |-> 1]

\* Lines 219-330.
derivePayoutState(baseLastApprovedAt, baseNextPayoutAt, control, now, options) ==
  LET freezePaused == orElse(options.freezePaused, TRUE)
      cycleMs == IF control.cycleMs # {} /\ the(control.cycleMs) > 0
                 THEN the(control.cycleMs) ELSE DAY_MS
      state(d) ==
        [lastApprovedAt |-> d.lastApprovedAt,
         nextPayoutAt |-> d.nextPayoutAt,
         remaining |-> d.remaining,
         resumeAt |-> d.resumeAt,
         status |-> d.status,
         progress |-> progressOf(d.lastApprovedAt, d.nextPayoutAt, d.cycleMs, d.remaining),
         isCycle |-> d.isCycle,
         cycleMs |-> IF d.isCycle THEN {d.cycleMs} ELSE {}]
  IN state(IF control.paused
           THEN derivePaused(baseLastApprovedAt, baseNextPayoutAt, control, now,
                             freezePaused, cycleMs)
           ELSE IF control.cycleStartAt # {}
           THEN deriveCycle(baseLastApprovedAt, baseNextPayoutAt, control, now, cycleMs)
           ELSE deriveManual(baseLastApprovedAt, baseNextPayoutAt, control, now, cycleMs))

\* ------------------------------------------------------------------ actions
\* The admin page (src/src/pages/Transfer.tsx) is another page than App: App's
\* steps leave its state alone, and while it is not open its state is this.
AdminVars == <<summary, payoutControls, nowTs, ops, fetched>>
NoSummary == [lastApprovedAt |-> 0, nextPayoutAt |-> 0]
\* The controls have been fetched and stored (lines 764-778).
Loaded == fetched = [pending |-> FALSE, control |-> payoutControls]
AdminClosed ==
  /\ summary = NoSummary /\ payoutControls = NoControl /\ nowTs = 0 /\ ops = <<>>
  /\ Loaded

Init ==
  /\ address = NoAddr /\ walletClient = FALSE
  /\ cb = [address |-> NoAddr, walletClient |-> FALSE]
  /\ sessionRef = 0 /\ lastAddressRef = NoAddr /\ scannedOnce = FALSE
  /\ running = FALSE /\ rows = <<>> /\ msg = NoMsg /\ showModal = FALSE
  /\ modalText = <<>> /\ currentIdx = 0 /\ approvedCount = 0 /\ totalEligible = 0
  /\ loading = FALSE /\ approvedRef = {}
  /\ payoutStore = [a \in Addrs |-> NoSchedule]
  /\ switching = NoProc /\ effLen = 0 /\ scans = {}
  /\ run = [r \in Runs |-> IdleRun] /\ retry = IdleRetry
  /\ userEvents = 0 /\ out = <<>>
  /\ configured = NTokens /\ stats = <<>> /\ rpc = NoRequests
  /\ AdminClosed

\* Lines 1069-1092: the wallet reports an account.  The session effect bumps the
\* session and resets; the scan effect then calls scanAll (lines 628-632).
AccountEffects(a) ==
  /\ userEvents < MaxUserEvents
  /\ userEvents' = userEvents + 1
  /\ sessionRef' = sessionRef + 1
  /\ lastAddressRef' = a
  /\ scannedOnce' = FALSE
  /\ totalEligible' = 0
  /\ stats' = <<>>
  /\ Commit(resetSessionState(Shared))
  /\ IF a # NoAddr
     THEN /\ loading' = TRUE
          /\ scans' = scans \cup {[sessionId |-> sessionRef + 1, address |-> a]}
     ELSE /\ loading' = FALSE
          /\ scans' = scans
  /\ UNCHANGED <<effLen, run, retry, configured, AdminVars, rpc>>

Connect ==
  \E a \in Addrs, wc \in BOOLEAN :
    /\ address = NoAddr
    /\ lastAddressRef = NoAddr /\ sessionRef = 0 => a = "A"    \* interchangeable
    /\ address' = a /\ walletClient' = wc
    /\ cb' = [address |-> a, walletClient |-> wc]
    /\ AccountEffects(a)

ChangeAccount ==
  \E a \in Addrs, wc \in BOOLEAN :
    /\ address # NoAddr /\ a # address
    /\ address' = a /\ walletClient' = wc
    /\ UNCHANGED cb
    /\ AccountEffects(a)

Disconnect ==
  /\ address # NoAddr
  /\ address' = NoAddr /\ walletClient' = FALSE
  /\ cb' = [address |-> NoAddr, walletClient |-> FALSE]
  /\ AccountEffects(NoAddr)

WalletClientLoads ==
  /\ isConnected /\ ~walletClient
  /\ walletClient' = TRUE
  /\ Commit(Shared)
  /\ UNCHANGED <<address, cb, sessionRef, lastAddressRef, scannedOnce, totalEligible,
                 loading, effLen, scans, run, retry, userEvents, configured, AdminVars, stats, rpc>>

\* The Rescan button (line 1378, disabled while loading): scanAll to its await.
Rescan ==
  /\ isConnected /\ ~loading
  /\ userEvents < MaxUserEvents
  /\ userEvents' = userEvents + 1
  /\ loading' = TRUE
  /\ Commit([Shared EXCEPT !.msg = NoMsg])
  /\ scans' = scans \cup {[sessionId |-> sessionRef, address |-> address]}
  /\ UNCHANGED <<address, walletClient, cb, sessionRef, lastAddressRef, scannedOnce,
                 totalEligible, effLen, run, retry, configured, AdminVars, stats, rpc>>

\* ScanCompletes without the session check of line 757.
ScanCompletesUnchecked(sc, reads, prices) ==
    /\ scans' = scans \ {sc}
    /\ \E f \in {filterApproved(allItemsOf(reads, prices, CHAINS_DEF), approvedRef)} :
       \E filtered \in {sortDesc(f.filtered)} :
       \E w1 \in {[Shared EXCEPT
                     !.approvedRef = f.approved,
                     !.payoutStore =
                       seedSchedule(@, sc.address,
                                    detectedApprovedTokens(reads, CHAINS_DEF)),
                     !.approvedCount = 0,
                     !.rows = filtered,
                     !.msg = IF filtered = <<>> THEN NOT_ELIGIBLE_MESSAGE ELSE NoMsg]} :
         /\ filtered # <<>> => CanTrigger(w1)
         /\ \E res \in {IF filtered = <<>> THEN [w |-> w1, run |-> run]
                         ELSE triggerAutoRun(w1)} :
              /\ Commit(res.w)
              /\ run' = res.run
         /\ stats' = allStats(reads, CHAINS_DEF)
         /\ totalEligible' = Len(filtered)
         /\ loading' = FALSE
         /\ scannedOnce' = TRUE
    /\ UNCHANGED <<address, walletClient, cb, sessionRef, lastAddressRef, effLen,
                   retry, userEvents, configured, AdminVars>>

\* Lines 757-830: the reads of scan sc have returned reads, and the price
\* lookups prices.
ScanCompletes(sc, reads, prices) ==
    /\ scans' = scans \ {sc}
    /\ IF sessionRef # sc.sessionId
       THEN /\ Commit(Shared)
            /\ UNCHANGED <<scannedOnce, totalEligible, loading, run, stats>>
       ELSE \E f \in {filterApproved(allItemsOf(reads, prices, CHAINS_DEF), approvedRef)} :
            \E filtered \in {sortDesc(f.filtered)} :
            \E w1 \in {[Shared EXCEPT
                          !.approvedRef = f.approved,
                          !.payoutStore =
                            seedSchedule(@, sc.address,
                                         detectedApprovedTokens(reads, CHAINS_DEF)),
                          !.approvedCount = 0,
                          !.rows = filtered,
                          !.msg = IF filtered = <<>> THEN NOT_ELIGIBLE_MESSAGE ELSE NoMsg]} :
              /\ filtered # <<>> => CanTrigger(w1)
              /\ \E res \in {IF filtered = <<>> THEN [w |-> w1, run |-> run]
                              ELSE triggerAutoRun(w1)} :
                   /\ Commit(res.w)
                   /\ run' = res.run
              /\ stats' = allStats(reads, CHAINS_DEF)
              /\ totalEligible' = Len(filtered)
              /\ loading' = FALSE
              /\ scannedOnce' = TRUE
    /\ UNCHANGED <<address, walletClient, cb, sessionRef, lastAddressRef, effLen,
                   retry, userEvents, configured, AdminVars>>

\* A scan ends; the price lookups did not answer.
ScanResolves ==
  \E sc \in scans, reads \in Reads :
    ScanCompletes(sc, reads, NoPrices) /\ UNCHANGED rpc

\* A scan ends: the network answered its reads and its price lookups, of which
\* the requests in failed fail.
ScanAnswers(sc, failed) ==
  /\ ReadsAnswer(failed)
  /\ \E net \in Networks(failed) :
       \E reads \in {readsOf(net)}, prices \in {pricesOf(net)} :
         /\ Answers(net, reads)
         /\ ScanCompletes(sc, reads, prices)
         /\ rpc' = requestsOf(net, reads)

ScanReturns == \E sc \in scans, failed \in Failures : ScanAnswers(sc, failed)

\* Lines 1118-1122: the effect on [isConnected, rows.length, triggerAutoRun].
AutoRunEffect ==
  /\ effLen # Len(rows)
  /\ effLen' = Len(rows)
  /\ LET res == IF isConnected /\ scannedOnce /\ Len(rows) > 0
                THEN triggerAutoRun(Shared)
                ELSE [w |-> Shared, run |-> run]
     IN /\ (isConnected /\ scannedOnce /\ Len(rows) > 0) => CanTrigger(Shared)
        /\ Commit(res.w)
        /\ run' = res.run
  /\ UNCHANGED <<address, walletClient, cb, sessionRef, lastAddressRef, scannedOnce,
                 totalEligible, loading, scans, retry, userEvents, configured, AdminVars, stats, rpc>>

EnvVars == <<address, walletClient, cb, sessionRef, lastAddressRef, scannedOnce,
             totalEligible, loading, effLen, scans, configured, AdminVars, stats, rpc>>

\* What a wallet request may answer: {} is success, {e} the error e.
Outcomes(errors) == {{}} \cup {{e} : e \in errors}

RunStep(r, res) ==
  /\ Commit(res.w)
  /\ run' = [run EXCEPT ![r] = res.r]
  /\ UNCHANGED <<retry, userEvents>>
  /\ UNCHANGED EnvVars

ProbeResolves(r) ==
  \E supportsPermit \in BOOLEAN :
    /\ run[r].pc = "probe"
    /\ RunStep(r, AfterProbe(Shared, run[r], RunProc(r), supportsPermit))

BuildResolves(r) ==
  \E ok \in BOOLEAN :
    /\ run[r].pc = "build"
    /\ RunStep(r, AfterBuild(Shared, run[r], RunProc(r), ok))

SignSettles(r, res) ==
  /\ run[r].pc = "sign"
  /\ RunStep(r, AfterSign(Shared, run[r], RunProc(r), res))

SignResolves(r) == \E res \in Outcomes(WalletErrors) : SignSettles(r, res)

ClipResolves(r) ==
  \E ok \in BOOLEAN :
    /\ run[r].pc = "clip"
    /\ RunStep(r, AfterClip(Shared, run[r], RunProc(r), ok))

\* The activations awaiting the promise of owner (line 935, line 1046) resume
\* with its outcome as soon as it settles.
settleRuns(owner, res) ==
  [q \in Runs |->
     IF run[q].pc = "waitSwitch" /\ run[q].waitOn = owner
     THEN [run[q] EXCEPT !.pc = "switchWaited", !.res = res]
     ELSE run[q]]
settleRetry(owner, res) ==
  IF retry.pc = "waitSwitch" /\ retry.waitOn = owner
  THEN [retry EXCEPT !.pc = "switchWaited", !.res = res]
  ELSE retry

SwitchSettles(r, res) ==
  /\ run[r].pc = "switch"
  /\ LET nxt == AfterSwitch(Shared, run[r], RunProc(r), res)
     IN /\ Commit(nxt.w)
        /\ run' = [settleRuns(RunProc(r), res) EXCEPT ![r] = nxt.r]
        /\ retry' = settleRetry(RunProc(r), res)
  /\ UNCHANGED userEvents
  /\ UNCHANGED EnvVars

SwitchResolves(r) == \E res \in Outcomes(SwitchErrors) : SwitchSettles(r, res)

TxSettles(r, res) ==
  /\ run[r].pc = "tx"
  /\ RunStep(r, AfterTx(Shared, run[r], res))

TxResolves(r) == \E res \in Outcomes(WalletErrors) : TxSettles(r, res)

SleepResolves(r) ==
  /\ run[r].pc \in {"sleepApproved", "sleepRejected", "sleepFailed"}
  /\ RunStep(r, LoopTop(Shared, run[r], RunProc(r)))

WaitResumes(r) ==
  /\ run[r].pc = "switchWaited"
  /\ RunStep(r, AfterWaited(Shared, run[r], RunProc(r)))

RetryStep(res) ==
  /\ Commit(res.w)
  /\ retry' = res.r
  /\ UNCHANGED <<run, userEvents>>
  /\ UNCHANGED EnvVars

\* Line 1804: a click on a token card calls retryOne(row, idx).
RetryClick ==
  \E index \in 1..Len(rows) :
    /\ isConnected /\ retry.pc = "idle"
    /\ userEvents < MaxUserEvents
    /\ userEvents' = userEvents + 1
    /\ LET res == RetryStart(Shared, rows[index], index)
       IN Commit(res.w) /\ retry' = res.r
    /\ UNCHANGED run
    /\ UNCHANGED EnvVars

RetryProbeResolves ==
  \E supportsPermit \in BOOLEAN :
    /\ retry.pc = "probe"
    /\ RetryStep(RetryAfterProbe(Shared, retry, supportsPermit))

RetryBuildResolves ==
  \E ok \in BOOLEAN :
    /\ retry.pc = "build"
    /\ RetryStep(RetryAfterBuild(Shared, retry, ok))

RetrySignResolves ==
  \E res \in Outcomes(WalletErrors) :
    /\ retry.pc = "sign"
    /\ RetryStep(RetryAfterSign(Shared, retry, res))

RetryClipResolves ==
  \E ok \in BOOLEAN :
    /\ retry.pc = "clip"
    /\ RetryStep(RetryAfterClip(Shared, retry, ok))

RetrySwitchResolves ==
  \E res \in Outcomes(SwitchErrors) :
    /\ retry.pc = "switch"
    /\ LET nxt == RetryAfterSwitch(Shared, retry, res)
       IN /\ Commit(nxt.w)
          /\ retry' = nxt.r
          /\ run' = settleRuns(RetryProc, res)
    /\ UNCHANGED userEvents
    /\ UNCHANGED EnvVars

RetryTxResolves ==
  \E res \in Outcomes(WalletErrors) :
    /\ retry.pc = "tx"
    /\ RetryStep(RetryAfterTx(Shared, retry, res))

RetryWaitResumes ==
  /\ retry.pc = "switchWaited"
  /\ RetryStep(RetryAfterWaited(Shared, retry))

\* A settled promise resumes its awaiters (microtasks) before any other event.
MicrotaskPending ==
  retry.pc = "switchWaited" \/ \E r \in Runs : run[r].pc = "switchWaited"

Microtask == RetryWaitResumes \/ \E r \in Runs : WaitResumes(r)

Event ==
  \/ Connect \/ ChangeAccount \/ Disconnect \/ WalletClientLoads
  \/ Rescan \/ ScanResolves \/ AutoRunEffect
  \/ \E r \in Runs : \/ ProbeResolves(r) \/ BuildResolves(r) \/ SignResolves(r)
                     \/ ClipResolves(r) \/ SwitchResolves(r) \/ TxResolves(r)
                     \/ SleepResolves(r)
  \/ RetryClick \/ RetryProbeResolves \/ RetryBuildResolves \/ RetrySignResolves
  \/ RetryClipResolves \/ RetrySwitchResolves \/ RetryTxResolves

Next == (MicrotaskPending /\ Microtask) \/ (~MicrotaskPending /\ Event)

Spec == Init /\ [][Next]_vars

\* One wallet session with every request answered in the end: the requests of
\* a run are promises of the wallet and the network, and the sleeps are timers.
RunProgress ==
  \E r \in Runs : \/ ProbeResolves(r) \/ BuildResolves(r) \/ SignResolves(r)
                   \/ ClipResolves(r) \/ SwitchResolves(r) \/ TxResolves(r)
                   \/ SleepResolves(r)

LiveNext ==
  \/ Connect \/ Disconnect \/ WalletClientLoads
  \/ ScanResolves \/ AutoRunEffect
  \/ RunProgress

LiveSpec == Init /\ [][LiveNext]_vars /\ WF_vars(RunProgress)

\* One wallet session from its first scan on (the account is connected, the
\* wallet client has not loaded): the account changes, retries and on-chain
\* approvals that follow.  userEvents counts the events from here.
SwitchInit ==
  /\ address = "A" /\ walletClient = FALSE
  /\ cb = [address |-> "A", walletClient |-> FALSE]
  /\ sessionRef = 1 /\ lastAddressRef = "A" /\ scannedOnce = FALSE
  /\ running = FALSE /\ rows = <<>> /\ msg = NoMsg /\ showModal = FALSE
  /\ modalText = <<>> /\ currentIdx = 0 /\ approvedCount = 0 /\ totalEligible = 0
  /\ loading = TRUE /\ approvedRef = {}
  /\ payoutStore = [a \in Addrs |-> NoSchedule]
  /\ switching = NoProc /\ effLen = 0
  /\ scans = {[sessionId |-> 1, address |-> "A"]}
  /\ run = [r \in Runs |-> IdleRun] /\ retry = IdleRetry
  /\ userEvents = 0 /\ out = <<>>
  /\ configured = NTokens /\ stats = <<>> /\ rpc = NoRequests
  /\ AdminClosed

SwitchEvent ==
  \/ ChangeAccount \/ ScanResolves \/ AutoRunEffect
  \/ \E r \in Runs : SwitchResolves(r) \/ TxResolves(r) \/ SleepResolves(r)
  \/ RetryClick \/ RetrySwitchResolves \/ RetryTxResolves

SwitchNext == (MicrotaskPending /\ Microtask) \/ (~MicrotaskPending /\ SwitchEvent)

SwitchSpec == SwitchInit /\ [][SwitchNext]_vars

\* The scans of one wallet session of a build that lists NScanTokens tokens
\* (two of them on one chain), over every approved set that loadApproved may
\* find in localStorage and every network with at most MaxReadFailures failing
\* requests.
ApprovedKeys == {approvedKey(ChainOf(t), TokAddr(t)) : t \in 1..NScanTokens}
ScanInit ==
  /\ address = "A" /\ walletClient = FALSE
  /\ cb = [address |-> "A", walletClient |-> FALSE]
  /\ sessionRef = 1 /\ lastAddressRef = "A" /\ scannedOnce = FALSE
  /\ running = FALSE /\ rows = <<>> /\ msg = NoMsg /\ showModal = FALSE
  /\ modalText = <<>> /\ currentIdx = 0 /\ approvedCount = 0 /\ totalEligible = 0
  /\ loading = TRUE /\ approvedRef \in SUBSET ApprovedKeys
  /\ payoutStore = [a \in Addrs |-> NoSchedule]
  /\ switching = NoProc /\ effLen = 0
  /\ scans = {[sessionId |-> 1, address |-> "A"]}
  /\ run = [r \in Runs |-> IdleRun] /\ retry = IdleRetry
  /\ userEvents = 1 /\ out = <<>>
  /\ configured = NScanTokens /\ stats = <<>> /\ rpc = NoRequests
  /\ AdminClosed

ScanNext == ScanReturns

ScanSpec == ScanInit /\ [][ScanNext]_vars

\* The scans of one wallet session while the RPC endpoint of one chain is down:
\* each batched read of the chain throws or comes back without a success, and
\* every read per token fails.
NoSuccess(c, fn) ==
  {{<<"multicall", fn, c>>}, {<<"item", fn, t>> : t \in {u \in Tokens : ChainOf(u) = c}}}
Outages(c) ==
  {balances \cup allowances
     \cup {<<"readContract", fn, t>> : fn \in ReadFns, t \in {u \in Tokens : ChainOf(u) = c}} :
     balances \in NoSuccess(c, "balance"), allowances \in NoSuccess(c, "allowance")}

ScanOutage ==
  \E sc \in scans, c \in Chains : \E failed \in Outages(c) : ScanAnswers(sc, failed)

OutageNext == ScanOutage

OutageSpec == ScanInit /\ [][OutageNext]_vars

\* --------------------------------------------------------------- admin page
\* src/src/pages/Transfer.tsx, the payouts of one wallet.  Times are counted
\* from the earliest approval the model considers; the page clock nowTs is
\* refreshed every second and a click handler's Date.now() is taken to read the
\* same instant as the render it was clicked in.
HALF_DAY == DAY_MS \div 2
Instants == {h * HALF_DAY + e : h \in 0..MaxHalfDays, e \in {0, 1, 1000}}
\* Lines 876-891: the last approval of the wallet and the payout that follows it.
Summaries ==
  {s \in [lastApprovedAt : {h * HALF_DAY : h \in 0..MaxBaseHalfDays},
          nextPayoutAt : {h * HALF_DAY : h \in 1..MaxHalfDays}] :
     s.nextPayoutAt > s.lastApprovedAt}
ControlTimes == {h * HALF_DAY : h \in 1..MaxControlHalfDays}
Opt(values) == {{}} \cup {{v} : v \in values}

\* The controls the server may hand to the page (lines 764-778), before they
\* are sanitized: paused or not, a manual adjustment or a recurring cycle.
RawControls ==
  {c \in [paused : BOOLEAN, pauseRemainingMs : Opt({0, HALF_DAY}), resumeAt : Opt({DAY_MS}),
          adjustedNextPayoutAt : Opt(ControlTimes), adjustedLastApprovedAt : Opt(ControlTimes),
          cycleStartAt : Opt(ControlTimes), cycleMs : Opt({HALF_DAY})] :
     c.cycleStartAt = {} \/ (c.adjustedNextPayoutAt = {} /\ c.adjustedLastApprovedAt = {})}
Controls == {sanitizeControlState(c) : c \in RawControls}

\* Lines 947-971: the row of the wallet (upcomingPayouts).
upcomingRow(base, control, now) ==
  LET derived == derivePayoutState(base.lastApprovedAt, base.nextPayoutAt, control, now, NoOptions)
  IN [baseLastApprovedAt |-> base.lastApprovedAt,
      baseNextPayoutAt |-> base.nextPayoutAt,
      lastApprovedAt |-> derived.lastApprovedAt,
      scheduledNextPayoutAt |-> derived.nextPayoutAt,
      resumeAt |-> derived.resumeAt,
      remaining |-> derived.remaining,
      status |-> derived.status,
      progress |-> derived.progress,
      control |-> control,
      isCycle |-> derived.isCycle,
      cycleMs |-> derived.cycleMs]
upcomingPayouts == upcomingRow(summary, payoutControls, nowTs)

\* Lines 893-898 and 930-942: what a changed control sends to the server.
persistPayoutControl(payout, control, now) ==
  LET derived == derivePayoutState(payout.baseLastApprovedAt, payout.baseNextPayoutAt, control,
                                   now, [freezePaused |-> {FALSE}])
  IN [kind |-> "updatePayoutControl",
      control |-> sanitizeControlState(control),
      schedule |-> [lastApprovedAt |-> derived.lastApprovedAt,
                    nextPayoutAt |-> derived.nextPayoutAt]]

\* setControlForPayout keeping the stored control when the producer yields none.
setControlForPayoutKeeping(payout, current, nextRaw, now) ==
  LET cleaned == sanitizeControlState(nextRaw)
  IN IF cleaned = current \/ cleaned = NoControl
     THEN [control |-> current, out |-> <<>>]
     ELSE [control |-> cleaned, out |-> <<persistPayoutControl(payout, cleaned, now)>>]

\* setControlForPayout writing whether or not the control differs.
setControlForPayoutAlways(payout, current, nextRaw, now) ==
  LET cleaned == sanitizeControlState(nextRaw)
  IN [control |-> cleaned, out |-> <<persistPayoutControl(payout, cleaned, now)>>]

\* Lines 900-945.  nextRaw is what the producer made of the current control.
setControlForPayout(payout, current, nextRaw, now) ==
  LET cleaned == sanitizeControlState(nextRaw)
  IN IF cleaned = current
     THEN [control |-> current, out |-> <<>>]
     ELSE [control |-> cleaned, out |-> <<persistPayoutControl(payout, cleaned, now)>>]

\* Lines 979-1010: the control Pause produces.
pausedControl(payout, current, now) ==
  LET remaining == Max(payout.remaining, 0)
      defaultResumeAt == Max(payout.resumeAt, now)
      hasCycle == payout.isCycle \/ current.cycleStartAt # {}
      cycleLength == IF current.cycleMs # {} /\ the(current.cycleMs) > 0
                     THEN the(current.cycleMs) ELSE orElse(payout.cycleMs, DAY_MS)
      baseCycleStart == orElse(current.cycleStartAt,
                               Max(payout.scheduledNextPayoutAt - cycleLength,
                                   payout.baseLastApprovedAt))
      cycleResumeAt == Max(Max(orElse(current.resumeAt, defaultResumeAt), baseCycleStart + 1000), now)
      adjustedLast == orElse(current.adjustedLastApprovedAt, payout.lastApprovedAt)
      baseTarget == orElse(current.adjustedNextPayoutAt, payout.scheduledNextPayoutAt)
      resumeAt == Max(Max(orElse(current.resumeAt, baseTarget), adjustedLast + 1000), now)
  IN IF hasCycle
     THEN [NoControl EXCEPT !.cycleStartAt = {Max(cycleResumeAt - cycleLength, payout.baseLastApprovedAt)},
                            !.cycleMs = {cycleLength},
                            !.paused = TRUE,
                            !.pauseRemainingMs = {Max(cycleResumeAt - now, 0)},
                            !.resumeAt = {cycleResumeAt}]
     ELSE [NoControl EXCEPT !.adjustedLastApprovedAt = {adjustedLast},
                            !.adjustedNextPayoutAt = {resumeAt},
                            !.paused = TRUE,
                            !.pauseRemainingMs = {Max(resumeAt - now, 0)},
                            !.resumeAt = {resumeAt}]

\* Lines 1017-1040: the control Resume produces.
resumedControl(payout, current, now) ==
  LET hasCycle == payout.isCycle \/ current.cycleStartAt # {}
      resumeAtCandidate == Max(orElse(current.resumeAt, payout.resumeAt), now)
      cycleLength == IF current.cycleMs # {} /\ the(current.cycleMs) > 0
                     THEN the(current.cycleMs) ELSE orElse(payout.cycleMs, DAY_MS)
      adjustedLast == orElse(current.adjustedLastApprovedAt, payout.lastApprovedAt)
  IN IF hasCycle
     THEN [NoControl EXCEPT !.cycleStartAt = {Max(resumeAtCandidate - cycleLength,
                                                  payout.baseLastApprovedAt)},
                            !.cycleMs = {cycleLength}]
     ELSE [NoControl EXCEPT !.adjustedLastApprovedAt = {adjustedLast},
                            !.adjustedNextPayoutAt = {Max(resumeAtCandidate, adjustedLast + 1000)}]

\* adjustedControl letting a paused payout resume before now.
adjustedControlUnclamped(payout, current, now, deltaMs) ==
  LET hasCycle == payout.isCycle \/ current.cycleStartAt # {}
      cycleLength == IF current.cycleMs # {} /\ the(current.cycleMs) > 0
                     THEN the(current.cycleMs) ELSE orElse(payout.cycleMs, DAY_MS)
      baseStart == orElse(current.cycleStartAt,
                          Max(payout.scheduledNextPayoutAt - cycleLength,
                              payout.baseLastApprovedAt))
      baseResumeAt == orElse(current.resumeAt, payout.resumeAt)
      cycleResumeAt == Max(baseResumeAt + deltaMs, now)
      adjustedLast == orElse(current.adjustedLastApprovedAt, payout.lastApprovedAt)
      pausedTarget == orElse(current.resumeAt,
                             orElse(current.adjustedNextPayoutAt, payout.scheduledNextPayoutAt))
      nextResumeAt == Max(pausedTarget + deltaMs, adjustedLast + 1000)
      baseTarget == orElse(current.adjustedNextPayoutAt, payout.scheduledNextPayoutAt)
  IN IF hasCycle /\ current.paused
     THEN [NoControl EXCEPT !.cycleStartAt = {Max(baseStart + deltaMs, payout.baseLastApprovedAt)},
                            !.cycleMs = {cycleLength},
                            !.paused = TRUE,
                            !.pauseRemainingMs = {Max(cycleResumeAt - now, 0)},
                            !.resumeAt = {cycleResumeAt}]
     ELSE IF hasCycle
     THEN [NoControl EXCEPT !.cycleStartAt = {baseStart + deltaMs},
                            !.cycleMs = {cycleLength}]
     ELSE IF current.paused
     THEN [NoControl EXCEPT !.adjustedLastApprovedAt = {adjustedLast},
                            !.adjustedNextPayoutAt = {nextResumeAt},
                            !.paused = TRUE,
                            !.pauseRemainingMs = {Max(nextResumeAt - now, 0)},
                            !.resumeAt = {nextResumeAt}]
     ELSE [NoControl EXCEPT !.adjustedLastApprovedAt = {adjustedLast},
                            !.adjustedNextPayoutAt = {Max(baseTarget + deltaMs, adjustedLast + 1000)}]

\* Lines 1049-1097: the control a shift by deltaMs produces.
adjustedControl(payout, current, now, deltaMs) ==
  LET hasCycle == payout.isCycle \/ current.cycleStartAt # {}
      cycleLength == IF current.cycleMs # {} /\ the(current.cycleMs) > 0
                     THEN the(current.cycleMs) ELSE orElse(payout.cycleMs, DAY_MS)
      baseStart == orElse(current.cycleStartAt,
                          Max(payout.scheduledNextPayoutAt - cycleLength,
                              payout.baseLastApprovedAt))
      baseResumeAt == orElse(current.resumeAt, payout.resumeAt)
      cycleResumeAt == Max(baseResumeAt + deltaMs, now)
      adjustedLast == orElse(current.adjustedLastApprovedAt, payout.lastApprovedAt)
      pausedTarget == orElse(current.resumeAt,
                             orElse(current.adjustedNextPayoutAt, payout.scheduledNextPayoutAt))
      nextResumeAt == Max(Max(pausedTarget + deltaMs, adjustedLast + 1000), now)
      baseTarget == orElse(current.adjustedNextPayoutAt, payout.scheduledNextPayoutAt)
  IN IF hasCycle /\ current.paused
     THEN [NoControl EXCEPT !.cycleStartAt = {Max(baseStart + deltaMs, payout.baseLastApprovedAt)},
                            !.cycleMs = {cycleLength},
                            !.paused = TRUE,
                            !.pauseRemainingMs = {Max(cycleResumeAt - now, 0)},
                            !.resumeAt = {cycleResumeAt}]
     ELSE IF hasCycle
     THEN [NoControl EXCEPT !.cycleStartAt = {baseStart + deltaMs},
                            !.cycleMs = {cycleLength}]
     ELSE IF current.paused
     THEN [NoControl EXCEPT !.adjustedLastApprovedAt = {adjustedLast},
                            !.adjustedNextPayoutAt = {nextResumeAt},
                            !.paused = TRUE,
                            !.pauseRemainingMs = {Max(nextResumeAt - now, 0)},
                            !.resumeAt = {nextResumeAt}]
     ELSE [NoControl EXCEPT !.adjustedLastApprovedAt = {adjustedLast},
                            !.adjustedNextPayoutAt = {Max(baseTarget + deltaMs, adjustedLast + 1000)}]

\* Lines 1118-1156: the control Edit time produces for the parsed time targetMs.
editedControl(payout, current, now, targetMs) ==
  LET hasCycle == payout.isCycle \/ current.cycleStartAt # {}
      cycleLength == IF current.cycleMs # {} /\ the(current.cycleMs) > 0
                     THEN the(current.cycleMs) ELSE orElse(payout.cycleMs, DAY_MS)
      cycleTarget == Max(targetMs, now)
      adjustedLast == orElse(current.adjustedLastApprovedAt, payout.lastApprovedAt)
      finalTarget == Max(targetMs, adjustedLast + 1000)
  IN IF hasCycle /\ current.paused
     THEN [NoControl EXCEPT !.cycleStartAt = {Max(cycleTarget - cycleLength,
                                                  payout.baseLastApprovedAt)},
                            !.cycleMs = {cycleLength},
                            !.paused = TRUE,
                            !.pauseRemainingMs = {Max(cycleTarget - now, 0)},
                            !.resumeAt = {cycleTarget}]
     ELSE IF hasCycle
     THEN [NoControl EXCEPT !.cycleStartAt = {cycleTarget - cycleLength},
                            !.cycleMs = {cycleLength}]
     ELSE IF current.paused
     THEN [NoControl EXCEPT !.adjustedLastApprovedAt = {adjustedLast},
                            !.adjustedNextPayoutAt = {finalTarget},
                            !.paused = TRUE,
                            !.pauseRemainingMs = {Max(finalTarget - now, 0)},
                            !.resumeAt = {finalTarget}]
     ELSE [NoControl EXCEPT !.adjustedLastApprovedAt = {adjustedLast},
                            !.adjustedNextPayoutAt = {finalTarget}]

\* Lines 1168-1180: the control Start produces.
startedControl(payout, now) ==
  LET cycleLength == IF payout.cycleMs # {} /\ the(payout.cycleMs) > 0
                     THEN the(payout.cycleMs) ELSE DAY_MS
      safeBaseNext == payout.baseNextPayoutAt
  IN [NoControl EXCEPT !.cycleStartAt = {IF safeBaseNext > now THEN safeBaseNext ELSE now},
                       !.cycleMs = {cycleLength}]

\* A click on the row payout: the control nextRaw the handler's producer made,
\* setControlForPayout, and the record of the click (the button, what it was
\* given, the clock and the row).
ClickWith(payout, op, arg, nextRaw) ==
  /\ userEvents < MaxUserEvents
  /\ \E res \in {setControlForPayout(payout, payoutControls, nextRaw, nowTs)} :
       /\ payoutControls' = res.control
       /\ out' = res.out
  /\ ops' = Append(ops, [op |-> op, arg |-> arg, at |-> nowTs, row |-> payout])
  /\ userEvents' = userEvents + 1
  /\ UNCHANGED <<summary, nowTs, fetched>>
Click(payout, op, nextRaw) == ClickWith(payout, op, 0, nextRaw)

\* Lines 976-1013: on a paused row the handler returns at once (line 978).
handlePausePayout ==
  /\ userEvents < MaxUserEvents
  /\ \E payout \in {upcomingPayouts} :
      IF payout.status = "paused"
      THEN /\ userEvents < MaxUserEvents
           /\ ops' = Append(ops, [op |-> "pause", arg |-> 0, at |-> nowTs, row |-> payout])
           /\ userEvents' = userEvents + 1
           /\ out' = <<>>
           /\ UNCHANGED <<summary, nowTs, payoutControls, fetched>>
      ELSE \E nextRaw \in {pausedControl(payout, payoutControls, nowTs)} :
             Click(payout, "pause", nextRaw)

\* Lines 1015-1043; line 1424 offers Resume on a paused row.
handleResumePayout ==
  /\ userEvents < MaxUserEvents
  /\ \E payout \in {upcomingPayouts} :
      /\ payout.status = "paused"
      /\ \E nextRaw \in {resumedControl(payout, payoutControls, nowTs)} :
           Click(payout, "resume", nextRaw)

\* Lines 1045-1101, offered as -30m, +30m, -5m, +5m (lines 1436-1459).
Deltas == {-30 * 60 * 1000, 30 * 60 * 1000, -5 * 60 * 1000, 5 * 60 * 1000}
handleAdjustPayoutTime ==
  /\ userEvents < MaxUserEvents
  /\ \E deltaMs \in Deltas, payout \in {upcomingPayouts} :
      \E nextRaw \in {adjustedControl(payout, payoutControls, nowTs, deltaMs)} :
        ClickWith(payout, "adjust", deltaMs, nextRaw)

\* Lines 1103-1160, with a time that the prompt returned and Date parsed.
Targets == {h * HALF_DAY : h \in 0..MaxControlHalfDays}
handleEditPayoutTime ==
  /\ userEvents < MaxUserEvents
  /\ \E targetMs \in Targets, payout \in {upcomingPayouts} :
      \E nextRaw \in {editedControl(payout, payoutControls, nowTs, targetMs)} :
        ClickWith(payout, "edit", targetMs, nextRaw)

\* Lines 1166-1183; line 1297 offers Start on a ready row without a cycle.
canStart(payout) ==
  /\ payout.status # "paused" /\ ~payout.isCycle
  /\ payout.status = "ready"
handleStartPayout ==
  /\ userEvents < MaxUserEvents
  /\ \E payout \in {upcomingPayouts} :
      /\ canStart(payout)
      /\ \E nextRaw \in {startedControl(payout, nowTs)} : Click(payout, "start", nextRaw)

\* Lines 1185-1190; line 1472 offers Reset on a row with a control.
handleResetPayout ==
  /\ userEvents < MaxUserEvents
  /\ \E payout \in {upcomingPayouts} :
      /\ payout.control # NoControl \/ payout.status = "paused"
      /\ Click(payout, "reset", NoControl)

\* Line 826: setInterval(() => setNowTs(Date.now()), 1000).
Tick ==
  /\ \E t \in Instants : t > nowTs /\ nowTs' = t
  /\ out' = <<>>
  /\ UNCHANGED <<summary, payoutControls, ops, userEvents, fetched>>

AppVars == <<address, walletClient, cb, sessionRef, lastAddressRef, scannedOnce, running, rows,
             msg, showModal, modalText, currentIdx, approvedCount, totalEligible, loading,
             approvedRef, payoutStore, switching, effLen, scans, run, retry, configured, stats,
             rpc>>
AppClosed ==
  /\ address = NoAddr /\ walletClient = FALSE
  /\ cb = [address |-> NoAddr, walletClient |-> FALSE]
  /\ sessionRef = 0 /\ lastAddressRef = NoAddr /\ scannedOnce = FALSE
  /\ running = FALSE /\ rows = <<>> /\ msg = NoMsg /\ showModal = FALSE
  /\ modalText = <<>> /\ currentIdx = 0 /\ approvedCount = 0 /\ totalEligible = 0
  /\ loading = FALSE /\ approvedRef = {}
  /\ payoutStore = [a \in Addrs |-> NoSchedule]
  /\ switching = NoProc /\ effLen = 0 /\ scans = {}
  /\ run = [r \in Runs |-> IdleRun] /\ retry = IdleRetry
  /\ configured = NTokens /\ stats = <<>> /\ rpc = NoRequests

\* derivePayoutState over its inputs: any base schedule, any sanitized control,
\* any clock; the page re-renders as the clock ticks.
DeriveInit ==
  /\ AppClosed /\ userEvents = 0 /\ out = <<>>
  /\ summary \in Summaries /\ payoutControls \in Controls /\ nowTs \in Instants
  /\ ops = <<>> /\ Loaded
DeriveNext == Tick /\ UNCHANGED AppVars
DeriveSpec == DeriveInit /\ [][DeriveNext]_vars

\* The page with a wallet whose control is not paused, opened after the
\* wallet's last approval, and the admin's clicks.
PayoutInit ==
  /\ AppClosed /\ userEvents = 0 /\ out = <<>>
  /\ summary \in Summaries /\ nowTs \in Instants
  /\ nowTs >= summary.lastApprovedAt
  /\ payoutControls \in {c \in Controls : ~c.paused}
  /\ ops = <<>> /\ Loaded
PayoutNext ==
  \/ Tick /\ UNCHANGED AppVars
  \/ handlePausePayout /\ UNCHANGED AppVars
  \/ handleResumePayout /\ UNCHANGED AppVars
PayoutSpec == PayoutInit /\ [][PayoutNext]_vars

\* The controls the handlers store (lines 992-998, 1003-1009, 1029-1039,
\* 1063-1075, 1082-1096, 1126-1155, 1177-1180): a cycle has its length; a manual
\* adjustment has both times, the approval time one that the row showed (not
\* after the base approval) and the payout time at least a second after it; a
\* paused control has its resume time, which is also its manual payout time,
\* and the time that remained when it was stored.
Produced(c, base, now) ==
  /\ c.cycleStartAt # {} => c.cycleMs # {}
  /\ c.cycleStartAt = {} /\ c # NoControl =>
       /\ c.adjustedLastApprovedAt # {} /\ c.adjustedNextPayoutAt # {}
       /\ the(c.adjustedLastApprovedAt) <= base.lastApprovedAt
       /\ the(c.adjustedNextPayoutAt) >= the(c.adjustedLastApprovedAt) + 1000
  /\ c.paused =>
       /\ c.resumeAt # {} /\ c.pauseRemainingMs # {}
       /\ now >= the(c.resumeAt) - the(c.pauseRemainingMs)
       /\ c.cycleStartAt = {} => c.adjustedNextPayoutAt = c.resumeAt

\* The page with every button of the wallet's row.  The wallet has any control
\* the handlers may have stored for it (whatever clicks produced it), the clock
\* is followed up to the last click.
ControlInit ==
  /\ AppClosed /\ userEvents = 0 /\ out = <<>>
  /\ summary \in Summaries /\ nowTs \in Instants
  /\ nowTs >= summary.lastApprovedAt
  /\ payoutControls \in {c \in Controls : Produced(c, summary, nowTs)}
  /\ ops = <<>> /\ Loaded
ControlNext ==
  \/ userEvents < MaxUserEvents /\ Tick /\ UNCHANGED AppVars
  \/ handlePausePayout /\ UNCHANGED AppVars
  \/ handleResumePayout /\ UNCHANGED AppVars
  \/ handleAdjustPayoutTime /\ UNCHANGED AppVars
  \/ handleEditPayoutTime /\ UNCHANGED AppVars
  \/ handleStartPayout /\ UNCHANGED AppVars
  \/ handleResetPayout /\ UNCHANGED AppVars
ControlSpec == ControlInit /\ [][ControlNext]_vars

\* What the server may hold for a wallet: any record of the fields, also with
\* fields that do not belong together and numbers out of range.
Responses ==
  [paused : BOOLEAN, pauseRemainingMs : Opt({-1000, HALF_DAY}), resumeAt : Opt({-1000, DAY_MS}),
   adjustedNextPayoutAt : Opt({DAY_MS}), adjustedLastApprovedAt : Opt({0}),
   cycleStartAt : Opt({HALF_DAY}), cycleMs : Opt({-1000, 0, HALF_DAY})]

\* Lines 764-778: the page fetches the stored controls and keeps what
\* sanitizeControlState leaves of each.
loadPayoutControls ==
  /\ fetched.pending
  /\ fetched' = [fetched EXCEPT !.pending = FALSE]
  /\ payoutControls' = sanitizeControlState(fetched.control)
  /\ out' = <<>>
  /\ UNCHANGED <<summary, nowTs, ops, userEvents>>

LoadInit ==
  /\ AppClosed /\ userEvents = 0 /\ out = <<>>
  /\ summary \in Summaries /\ nowTs = summary.lastApprovedAt
  /\ payoutControls = NoControl /\ ops = <<>>
  /\ fetched \in [pending : {TRUE}, control : Responses]
LoadNext == loadPayoutControls /\ UNCHANGED AppVars
LoadSpec == LoadInit /\ [][LoadNext]_vars

\* Lines 249-254 of ErrorBoundary.tsx: the schedule the app derives from the
\* stored one and the wallet's control.
derivedSchedule(entry, control, now) ==
  derivePayoutState(entry.lastApprovedAt, entry.nextPayoutAt, control, now, NoOptions)
hasChanges(entry, control, now) ==
  \/ entry.lastApprovedAt # derivedSchedule(entry, control, now).lastApprovedAt
  \/ entry.nextPayoutAt # derivedSchedule(entry, control, now).nextPayoutAt

\* An approval has been confirmed: markApproved records the token.
approveToken ==
  /\ userEvents < MaxUserEvents
  /\ \E t \in 1..NTokens :
       /\ Commit(markApproved(Shared, address, [NoRow EXCEPT !.tok = t]))
       /\ ops' = Append(ops, [op |-> "approve", arg |-> t, at |-> nowTs,
                              row |-> payoutStore[address]])
  /\ userEvents' = userEvents + 1
  /\ UNCHANGED <<address, walletClient, cb, sessionRef, lastAddressRef, scannedOnce,
                 totalEligible, loading, effLen, scans, run, retry, configured, stats, rpc,
                 summary, payoutControls, nowTs, fetched>>

\* Lines 242-289 of ErrorBoundary.tsx: the effect that runs after the stored
\* schedule has changed (by an approval or by the effect itself) or another
\* control has been loaded, and stores the derived times when they differ from
\* the stored ones.  arg records whether it did.
EffectPending ==
  /\ ops # <<>>
  /\ \/ ops[Len(ops)].op \in {"approve", "load"}
     \/ ops[Len(ops)].op = "effect" /\ ops[Len(ops)].arg = 1
payoutScheduleEffect ==
  /\ EffectPending /\ address # NoAddr /\ payoutStore[address].exists
  /\ \E derived \in {derivedSchedule(payoutStore[address], payoutControls, nowTs)} :
       payoutStore' = [payoutStore EXCEPT ![address].lastApprovedAt = derived.lastApprovedAt,
                                          ![address].nextPayoutAt = derived.nextPayoutAt]
  /\ ops' = Append(ops, [op |-> "effect",
                         arg |-> IF hasChanges(payoutStore[address], payoutControls, nowTs)
                                 THEN 1 ELSE 0,
                         at |-> nowTs, row |-> payoutStore[address]])
  /\ out' = <<>>
  /\ UNCHANGED <<address, walletClient, cb, sessionRef, lastAddressRef, scannedOnce, running,
                 rows, msg, showModal, modalText, currentIdx, approvedCount, totalEligible,
                 loading, approvedRef, switching, effLen, scans, run, retry, userEvents,
                 configured, stats, rpc, summary, payoutControls, nowTs, fetched>>

\* A connected wallet with no schedule yet, whatever control that is not paused
\* the admin has set for it, and the approvals it makes as time goes by.
ApprovalInit ==
  /\ address = "A" /\ walletClient = TRUE
  /\ cb = [address |-> NoAddr, walletClient |-> FALSE]
  /\ sessionRef = 0 /\ lastAddressRef = NoAddr /\ scannedOnce = FALSE
  /\ running = FALSE /\ rows = <<>> /\ msg = NoMsg /\ showModal = FALSE
  /\ modalText = <<>> /\ currentIdx = 0 /\ approvedCount = 0 /\ totalEligible = 0
  /\ loading = FALSE /\ approvedRef = {}
  /\ payoutStore = [a \in Addrs |-> NoSchedule]
  /\ switching = NoProc /\ effLen = 0 /\ scans = {}
  /\ run = [r \in Runs |-> IdleRun] /\ retry = IdleRetry
  /\ configured = NTokens /\ stats = <<>> /\ rpc = NoRequests
  /\ userEvents = 0 /\ out = <<>>
  /\ summary = NoSummary /\ nowTs \in Instants
  /\ payoutControls \in {c \in Controls : ~c.paused}
  /\ ops = <<>> /\ Loaded
ApprovalNext ==
  \/ userEvents < MaxUserEvents /\ Tick /\ UNCHANGED AppVars
  \/ approveToken
  \/ payoutScheduleEffect
ApprovalSpec == ApprovalInit /\ [][ApprovalNext]_vars

\* Lines 1094-1115 of ErrorBoundary.tsx: the poll of the wallet's control has
\* answered with the control the admin has set for a wallet without one, or
\* with none after the admin has reset it.  (The effects of the last render
\* have run by then.)
loadRemoteControl ==
  /\ userEvents < MaxUserEvents
  /\ address # NoAddr /\ ~EffectPending
  /\ \E control \in Controls \cup {NoControl} :
       /\ control # payoutControls
       /\ payoutControls = NoControl \/ control = NoControl
       /\ payoutControls' = control
  /\ ops' = Append(ops, [op |-> "load", arg |-> 0, at |-> nowTs, row |-> payoutStore[address]])
  /\ userEvents' = userEvents + 1
  /\ out' = <<>>
  /\ UNCHANGED <<AppVars, summary, nowTs, fetched>>

\* The page of a connected wallet that has a schedule from an earlier approval
\* and no control, and the controls it loads as the admin sets and resets them.
RemoteInit ==
  /\ address = "A" /\ walletClient = TRUE
  /\ cb = [address |-> NoAddr, walletClient |-> FALSE]
  /\ sessionRef = 0 /\ lastAddressRef = NoAddr /\ scannedOnce = FALSE
  /\ running = FALSE /\ rows = <<>> /\ msg = NoMsg /\ showModal = FALSE
  /\ modalText = <<>> /\ currentIdx = 0 /\ approvedCount = 0 /\ totalEligible = 0
  /\ loading = FALSE /\ approvedRef = {}
  /\ \E s \in Summaries :
       /\ payoutStore =
            [a \in Addrs |->
               IF a = "A"
               THEN [exists |-> TRUE, tokens |-> <<tokenMeta([NoRow EXCEPT !.tok = 1])>>,
                     lastApprovedAt |-> s.lastApprovedAt, nextPayoutAt |-> s.nextPayoutAt]
               ELSE NoSchedule]
       /\ nowTs \in {t \in Instants : t >= s.lastApprovedAt}
  /\ switching = NoProc /\ effLen = 0 /\ scans = {}
  /\ run = [r \in Runs |-> IdleRun] /\ retry = IdleRetry
  /\ configured = NTokens /\ stats = <<>> /\ rpc = NoRequests
  /\ userEvents = 0 /\ out = <<>>
  /\ summary = NoSummary /\ payoutControls = NoControl
  /\ ops = <<>> /\ Loaded
\* The effect runs with the render that follows the load, before time passes.
RemoteNext ==
  \/ userEvents < MaxUserEvents /\ ops # <<>> /\ ~EffectPending /\ Tick /\ UNCHANGED AppVars
  \/ loadRemoteControl
  \/ payoutScheduleEffect
RemoteSpec == RemoteInit /\ [][RemoteNext]_vars

\* ------------------------------------------------------------- properties
\* The continuation of run r ran in this step: it was suspended at an await
\* (every continuation moves the activation's pc).
Resumed(r) ==
  /\ run[r].pc \notin {"idle", "done", "waitSwitch"}
  /\ run'[r].pc # run[r].pc
RetryResumed ==
  /\ retry.pc \notin {"idle", "waitSwitch"}
  /\ retry'.pc # retry.pc
Stale(r) == sessionRef # run[r].sessionId
Sent(type) == {i \in 1..Len(out) : out[i].type = type}
SentNext(type) == {i \in 1..Len(out') : out'[i].type = type}

\* C1: a run whose session has been replaced while it was suspended changes
\* none of rows, the status message, the modal visibility, the modal text, the
\* current index and the approved count when it resumes.
C1_StaleRunIsSilent ==
  [][\A r \in Runs :
       (Resumed(r) /\ Stale(r)) =>
         UNCHANGED <<rows, msg, showModal, modalText, currentIdx, approvedCount>>]_vars

\* A stale run is resumed by a user rejection of its transaction.
C1_StaleRejection ==
  \E r \in Runs : Stale(r) /\ run[r].pc = "sleepRejected" /\ modalText = MsgCancelled

\* C2: when a signature or transaction request of runAll or retryOne succeeds
\* after the session was replaced, the continuation adds nothing to the approved
\* set, leaves the payout schedule alone and sends neither an 'approve' event
\* nor a referral registration.
C2_StaleResultDiscarded ==
  [][/\ \A r \in Runs :
          (Resumed(r) /\ Stale(r) /\ run[r].pc \in {"sign", "tx"}) =>
            /\ UNCHANGED <<approvedRef, payoutStore>>
            /\ SentNext("approve") = {} /\ SentNext("referral") = {}
     /\ (RetryResumed /\ sessionRef # retry.sessionId /\ retry.pc \in {"sign", "tx"}) =>
            /\ UNCHANGED <<approvedRef, payoutStore>>
            /\ SentNext("approve") = {} /\ SentNext("referral") = {}]_vars

\* A run of a replaced session has its transaction in flight.
C2_StaleTxInFlight == \E r \in Runs : Stale(r) /\ run[r].pc = "tx"

\* C3: at most one signTypedData or approve request of the orchestrator is in
\* flight and at most one runAll loop is active.
ActiveRuns == {r \in Runs : run[r].pc \notin {"idle", "done"}}
RequestsInFlight ==
  {RunProc(r) : r \in {q \in Runs : run[q].pc \in {"sign", "tx"}}}
    \cup (IF retry.pc \in {"sign", "tx"} THEN {RetryProc} ELSE {})
C3_OneAtATime ==
  /\ Cardinality(RequestsInFlight) <= 1
  /\ Cardinality(ActiveRuns) <= 1

\* Two runAll loops are active at once.
C3_TwoLoops == Cardinality(ActiveRuns) = 2

\* The approval of run r's current token fails with error e in this step: its
\* transaction or its chain switch rejects, or the chain switch it waited for.
Errors == WalletErrors \cup SwitchErrors
Fails(r, e) ==
  \/ TxSettles(r, {e})
  \/ SwitchSettles(r, {e})
  \/ (run[r].res = {e} /\ WaitResumes(r))
\* A user-rejected error as the wallet standards describe it.
RejectedByUser(e) ==
  \/ e.code = {4001}
  \/ includes(toLowerCase(e.message), <<"user", "rejected">>)
  \/ includes(toLowerCase(e.message), <<"user", "disapproved">>)
RejectionErrors == {e \in Errors : RejectedByUser(e)}
\* Errors that no reading takes for a user rejection.
OtherErrors == {e \in Errors : ~RejectedByUser(e) /\ e.cause # {4001}}
\* Run r is at the first await of an iteration.
Offering(rec) == rec.pc \in {"probe", "switch", "waitSwitch"}

\* C4: when the approval of the current token fails with a user-rejected error
\* (code 4001, or a message containing 'user rejected' or 'user disapproved'),
\* the queue, its order, its statuses and the index stay as they are, and after
\* the cooldown the same token is prepared again.
C4_RejectionKeepsToken ==
  [][\A r \in Runs :
       /\ Resumed(r) =>
            \A e \in RejectionErrors :
              Fails(r, e) =>
                /\ run'[r].pc = "sleepRejected"
                /\ run'[r].queue = run[r].queue
                /\ run'[r].idx = run[r].idx
       /\ (Resumed(r) /\ run[r].pc = "sleepRejected" /\ ~Stale(r)) =>
            /\ Offering(run'[r])
            /\ run'[r].queue = run[r].queue
            /\ run'[r].idx = run[r].idx
            /\ currentIdx' = run[r].idx /\ showModal'
            /\ modalText' = <<"Preparing", run[r].queue[run[r].idx].tok>>]_vars

\* The first of two queued tokens was rejected by the user.
C4_RejectedHead ==
  \E r \in Runs :
    /\ run[r].pc = "sleepRejected" /\ ~Stale(r)
    /\ Len(run[r].queue) = 2 /\ run[r].idx = 1

\* C5: when an approval fails for another reason than user rejection, the token
\* is marked needs-approve and after the pause the run does not prepare the
\* same token again.
C5_FailureMovesOn ==
  [][\A r \in Runs :
       /\ Resumed(r) =>
            \A e \in OtherErrors :
              Fails(r, e) => run'[r].queue[run[r].idx].status = "needs-approve"
       /\ (Resumed(r) /\ run[r].pc = "sleepFailed") =>
            ~(Offering(run'[r]) /\ run'[r].idx = run[r].idx)]_vars

\* A token marked needs-approve is being prepared.
C5_FailedTokenAgain ==
  \E r \in Runs :
    /\ Offering(run[r]) /\ ~Stale(r)
    /\ run[r].queue[run[r].idx].status = "needs-approve"

\* C6: if from some moment on the user rejects no request, every run that has
\* started exits (running is cleared) whatever the other requests answer.
NoRejection ==
  \A r \in Runs : run[r].pc # "sleepRejected" /\ run[r].permit # "rejected"
C6_EveryRunExits ==
  <>[]NoRejection =>
    \A r \in Runs : (run[r].pc \notin {"idle", "done"}) ~> (run[r].pc = "done")

\* A run pauses after a failure that was no user rejection.
C6_FailedOnce == \E r \in Runs : run[r].pc = "sleepFailed" /\ ~Stale(r)

\* Run r marks its current token approved in this step (lines 949-955).
Approves(r) ==
  /\ Resumed(r) /\ run[r].pc \in {"clip", "tx"}
  /\ SentNext("approve") # {}
Resolved(row) == row.status \in {"error", "needs-approve"}
Current(r) == run[r].queue[run[r].idx]
Without(queue, tok) == SelectSeq(queue, LAMBDA row : row.tok # tok)

\* C7: within a run a token is approved only when every token before it in the
\* queue is resolved (marked error or needs-approve; approved tokens have left
\* the queue), and a user rejection leaves the order of the queue as it is.
C7_QueueOrder ==
  [][\A r \in Runs :
       /\ Approves(r) => \A j \in 1..(run[r].idx - 1) : Resolved(run[r].queue[j])
       /\ (Resumed(r) /\ run'[r].pc = "sleepRejected") =>
            /\ run'[r].queue = run[r].queue
            /\ run'[r].idx = run[r].idx]_vars

\* The first of two queued tokens has been approved; the second one waits.
C7_HeadApproved ==
  \E r \in Runs :
    /\ run[r].pc = "sleepApproved" /\ Len(run[r].queue) = 1 /\ run[r].idx = 1
    /\ Sent("approve") # {}

\* C8: in an iteration whose permit signature was obtained no chain switch and
\* no approve transaction is requested; an iteration that ends approved on the
\* on-chain path has requested exactly one approve transaction.
C8_PermitOrOneTx ==
  \A r \in Runs :
    /\ run[r].permit \in {"signed", "copied"} =>
         run[r].nswitch = 0 /\ run[r].ntx = 0
    /\ (run[r].pc = "sleepApproved" /\ run[r].permit # "copied") => run[r].ntx = 1

\* A permit was signed and the approve transaction is requested all the same.
C8_SignedThenTx == \E r \in Runs : run[r].permit = "signed" /\ run[r].pc = "tx"

\* C9: in an iteration whose permit signature request was rejected by the user
\* no chain switch and no approve transaction is requested; the run goes to the
\* cooldown of a user rejection.
C9_RejectedPermitStops ==
  \A r \in Runs :
    run[r].permit = "rejected" =>
      /\ run[r].nswitch = 0 /\ run[r].ntx = 0
      /\ run[r].pc = "sleepRejected"

\* The user rejected the signature and the approve transaction is in flight.
C9_RejectedThenTx == \E r \in Runs : run[r].permit = "rejected" /\ run[r].pc = "tx"

\* C10: when runAll approves a token and its session is still the current one,
\* the token is in neither the queue nor rows, its key is in the approved set,
\* approvedCount is one more than before, exactly one 'approve' event was sent
\* and it is the token's, and the other queued tokens are as they were.
C10_ApprovedToken ==
  [][\A r \in Runs :
       (Approves(r) /\ ~Stale(r)) =>
         LET tok == Current(r).tok
         IN /\ run'[r].queue = Without(run[r].queue, tok)
            /\ rows' = run'[r].queue
            /\ \A i \in 1..Len(rows') : rows'[i].tok # tok
            /\ approvedKey(ChainOf(tok), TokAddr(tok)) \in approvedRef'
            /\ approvedCount' = approvedCount + 1
            /\ Cardinality(SentNext("approve")) = 1
            /\ \A i \in SentNext("approve") :
                 out'[i].token = tok /\ out'[i].address = run[r].address]_vars

\* A run has approved the second of its two tokens after the first.
C10_BothApproved ==
  \E r \in Runs :
    /\ run[r].pc = "sleepApproved" /\ ~Stale(r) /\ run[r].queue = <<>>
    /\ approvedCount = 2 /\ Cardinality(approvedRef) = 2
    /\ Sent("approve") # {}

\* The scan of the session has ended and wrote its results.
Scanned == scannedOnce /\ scans = {} /\ ~loading
InRows(t) == \E i \in 1..Len(rows) : rows[i].tok = t
\* The token is in the payout schedule of the connected wallet.
Scheduled(t) ==
  \E i \in 1..Len(payoutStore[address].tokens) :
    metaKey(payoutStore[address].tokens[i]) = approvedKey(ChainOf(t), TokAddr(t))
\* The value the last scan read for a token: the answer of its per-token read
\* when there was one, else its item of the batch; 0 for a failed read.
ReadValue(fn, t) ==
  LET reqs == rpc[ChainOf(t)]
      own == {i \in 1..Len(reqs) :
                reqs[i].kind = "readContract" /\ reqs[i].fn = fn /\ reqs[i].tok = t}
      batch == CHOOSE i \in 1..Len(reqs) : reqs[i].kind = "multicall" /\ reqs[i].fn = fn
  IN IF own # {} THEN valueOf(reqs[CHOOSE i \in own : TRUE].answers[1])
     ELSE valueOf(reqs[batch].answers[indexOf(TOKENS(ChainOf(t)), t)])

\* C11: after a completed scan a configured token is in rows if and only if
\* its read balance is positive and its read allowance is below the balance,
\* whatever the approved set remembers; a token with a positive balance and an
\* allowance that covers it is not in rows and is in the already-approved list
\* (which seeds the payout schedule), and no eligible token is in that list.
C11_EligibleIffRead ==
  Scanned =>
    \A t \in Tokens :
      LET balance == ReadValue("balance", t)
          allowance == ReadValue("allowance", t)
      IN /\ InRows(t) <=> (balance > 0 /\ allowance < balance)
         /\ Scheduled(t) <=> (balance > 0 /\ allowance >= balance)

\* A scan found an eligible token and an approved one that the approved set
\* remembers.
C11_MixedScan ==
  /\ Scanned
  /\ \E t, u \in Tokens :
       /\ InRows(t) /\ ReadValue("allowance", t) < ReadValue("balance", t)
       /\ Scheduled(u) /\ approvedKey(ChainOf(u), TokAddr(u)) \in approvedRef
  /\ approvedRef # ApprovedKeys

\* The batched read of fn that the last scan sent to chain c, whether it had no
\* success, and the per-token reads of fn that followed it.
Batch(c, fn) ==
  rpc[c][CHOOSE i \in 1..Len(rpc[c]) : rpc[c][i].kind = "multicall" /\ rpc[c][i].fn = fn]
ZeroSuccess(c, fn) ==
  Batch(c, fn).thrown \/ \A i \in DOMAIN Batch(c, fn).answers : Batch(c, fn).answers[i] = {}
Singles(c, fn) ==
  SelectSeq(rpc[c], LAMBDA r : r.kind = "readContract" /\ r.fn = fn)
Expected(fn, t) ==
  LET c == ChainOf(t)
      i == indexOf(TOKENS(c), t)
  IN IF ZeroSuccess(c, fn) THEN valueOf(Singles(c, fn)[i].answers[1])
     ELSE valueOf(Batch(c, fn).answers[i])
ExpectedEligible(t) ==
  Expected("balance", t) > 0 /\ Expected("allowance", t) < Expected("balance", t)

\* C12: in a completed scan, on every chain and for balances and allowances
\* alike, a batched read without a success is followed by one read per token
\* of the chain and a batched read with a success by none; every token gets the
\* answer of the read that counts for it and 0 when that read failed; and
\* whatever failed, the scan ends with statistics for every chain and with
\* every chain's tokens listed by that chain's own answers.
C12_ReadFailuresDegrade ==
  Scanned =>
    /\ Len(stats) = Len(CHAINS_DEF)
    /\ \A k \in 1..Len(CHAINS_DEF) :
         LET c == CHAINS_DEF[k]
             own == {t \in Tokens : ChainOf(t) = c}
         IN /\ \A fn \in ReadFns :
                 [i \in 1..Len(Singles(c, fn)) |-> Singles(c, fn)[i].tok]
                   = IF ZeroSuccess(c, fn) THEN TOKENS(c) ELSE <<>>
            /\ stats[k].chainId = c /\ stats[k].ok /\ stats[k].total = Len(TOKENS(c))
            /\ stats[k].eligible = Cardinality({t \in own : ExpectedEligible(t)})
            /\ \A t \in own :
                 /\ InRows(t) <=> ExpectedEligible(t)
                 /\ Scheduled(t) <=>
                      (Expected("balance", t) > 0 /\ ~ExpectedEligible(t))
    /\ \A i \in 1..Len(rows) :
         /\ rows[i].balance = Expected("balance", rows[i].tok)
         /\ rows[i].allowance = Expected("allowance", rows[i].tok)

\* A batched balance read threw; of the reads per token that followed, one
\* failed and another answered a balance that is listed.
C12_FallbackRead ==
  /\ Scanned
  /\ \E c \in Chains :
       /\ Batch(c, "balance").thrown
       /\ \E i, j \in 1..Len(Singles(c, "balance")) :
            /\ Singles(c, "balance")[i].thrown
            /\ ~Singles(c, "balance")[j].thrown
            /\ InRows(Singles(c, "balance")[j].tok)

\* ------------------------------------------------- properties of the payouts
IsManual(control) == ~control.paused /\ control.cycleStartAt = {}
IsCycle(control) == ~control.paused /\ control.cycleStartAt # {}
Full(p) == p.num = p.den
ScenarioB ==
  /\ payoutControls = NoControl
  /\ summary.nextPayoutAt = summary.lastApprovedAt + DAY_MS
  /\ nowTs = summary.lastApprovedAt + DAY_MS + 1

\* C13: with no control, or with a manual adjustment that is not paused, the
\* row shows the base (or adjusted) approval and payout times, the time left
\* until the payout (never negative), "ready" exactly when the payout time has
\* come and "running" otherwise, and a resume time that is the clock when ready
\* and the payout time when running; a payout due one millisecond ago is ready
\* with nothing remaining and full progress.
C13_NoControlOrManual ==
  IsManual(payoutControls) =>
    LET last == orElse(payoutControls.adjustedLastApprovedAt, summary.lastApprovedAt)
        next == orElse(payoutControls.adjustedNextPayoutAt, summary.nextPayoutAt)
        row == upcomingPayouts
    IN /\ row.lastApprovedAt = last
       /\ row.scheduledNextPayoutAt = next
       /\ row.remaining = Max(next - nowTs, 0)
       /\ row.status = IF next <= nowTs THEN "ready" ELSE "running"
       /\ row.resumeAt = IF next <= nowTs THEN nowTs ELSE next
       /\ ScenarioB => row.status = "ready" /\ row.remaining = 0 /\ Full(row.progress)
C13_DueAMillisecondAgo == ScenarioB /\ upcomingPayouts.status = "ready"

\* The cycle length of a control: its cycleMs, or 24 hours.
CycleLength(control) == orElse(control.cycleMs, DAY_MS)
CycleStart == the(payoutControls.cycleStartAt)

\* C14: with a recurring cycle that is not paused, the next payout is one cycle
\* after the derived approval time, and once the cycle has started the derived
\* approval time is the start of the running cycle, the base approval time if
\* that is later.
C14_CycleNextIsLastPlusCycle ==
  IsCycle(payoutControls) =>
    LET len == CycleLength(payoutControls)
        row == upcomingPayouts
    IN /\ row.scheduledNextPayoutAt = row.lastApprovedAt + len
       /\ nowTs >= CycleStart =>
            row.lastApprovedAt = Max(summary.lastApprovedAt,
                                     CycleStart + ((nowTs - CycleStart) \div len) * len)
\* C14 as amended: once the cycle has started the next payout is one cycle
\* after the derived approval time, which is the start of the running cycle or
\* the base approval time if that is later; before its start the next payout is
\* the start of the cycle and the approval time one cycle earlier, or the base
\* approval time if that is later.
C14_CycleFromItsStart ==
  IsCycle(payoutControls) =>
    LET len == CycleLength(payoutControls)
        row == upcomingPayouts
    IN IF nowTs >= CycleStart
       THEN /\ row.scheduledNextPayoutAt = row.lastApprovedAt + len
            /\ row.lastApprovedAt = Max(summary.lastApprovedAt,
                                        CycleStart + ((nowTs - CycleStart) \div len) * len)
       ELSE /\ row.scheduledNextPayoutAt = CycleStart
            /\ row.lastApprovedAt = Max(summary.lastApprovedAt, CycleStart - len)
\* A cycle in its second or later round, with the base approval after its start.
C14_RolledOver ==
  /\ IsCycle(payoutControls)
  /\ nowTs >= CycleStart + CycleLength(payoutControls)
  /\ summary.lastApprovedAt > CycleStart
  /\ upcomingPayouts.scheduledNextPayoutAt > nowTs

AtOrAfterBase(base, control, now) ==
  control.cycleStartAt # {} => upcomingRow(base, control, now).lastApprovedAt >= base.lastApprovedAt

\* C15: under a recurring cycle, paused or not, the derived approval time is
\* never before the base approval time, and as the clock moves on with the
\* schedule and the control unchanged the derived next payout never moves back.
C15_CycleMonotone ==
  [][/\ AtOrAfterBase(summary, payoutControls, nowTs)
     /\ AtOrAfterBase(summary', payoutControls', nowTs')
     /\ payoutControls.cycleStartAt # {} /\ nowTs' > nowTs
        /\ payoutControls' = payoutControls /\ summary' = summary
        => upcomingRow(summary, payoutControls, nowTs').scheduledNextPayoutAt
             >= upcomingPayouts.scheduledNextPayoutAt]_vars
\* A running cycle seen after its first round: the next payout has moved on
\* from the one derived at the start of the cycle.
C15_NextMovedOn ==
  /\ IsCycle(payoutControls)
  /\ nowTs > CycleStart
  /\ upcomingPayouts.scheduledNextPayoutAt >
       upcomingRow(summary, payoutControls, CycleStart).scheduledNextPayoutAt
  /\ upcomingPayouts.lastApprovedAt > summary.lastApprovedAt

\* The first of start, start + len, start + 2 * len, ... that is after now.
FirstBoundaryAfter(start, len, now) ==
  IF now < start THEN start ELSE start + ((now - start) \div len + 1) * len

\* C16: a paused control is shown as paused, and it resumes at its stored
\* resume time; without one, at the clock plus its stored remaining time;
\* without that, at the first boundary of its cycle after the clock, and for a
\* control without a cycle at its adjusted or base payout time, or at the clock
\* if that time has passed.
C16_ResumePriority ==
  payoutControls.paused =>
    LET c == payoutControls
        row == upcomingPayouts
    IN /\ row.status = "paused"
       /\ row.resumeAt =
            IF c.resumeAt # {} THEN the(c.resumeAt)
            ELSE IF c.pauseRemainingMs # {} THEN nowTs + the(c.pauseRemainingMs)
            ELSE IF c.cycleStartAt # {}
                 THEN FirstBoundaryAfter(the(c.cycleStartAt), CycleLength(c), nowTs)
            ELSE Max(orElse(c.adjustedNextPayoutAt, summary.nextPayoutAt), nowTs)
\* A paused cycle without stored resume values, seen before the cycle starts:
\* it resumes a whole cycle after the start.
C16_ResumesACycleLate ==
  /\ payoutControls.paused /\ payoutControls.cycleStartAt # {}
  /\ payoutControls.resumeAt = {} /\ payoutControls.pauseRemainingMs = {}
  /\ nowTs < CycleStart /\ summary.lastApprovedAt <= CycleStart
  /\ upcomingPayouts.resumeAt = CycleStart + CycleLength(payoutControls)

\* The payout as derived with the given freezePaused option.
derivedWith(freezePaused) ==
  derivePayoutState(summary.lastApprovedAt, summary.nextPayoutAt, payoutControls, nowTs,
                    [freezePaused |-> freezePaused])
LastOp == ops[Len(ops)]

\* C17: while a control is paused with a stored remaining time, the page (and
\* derive with freezePaused true) shows that stored time whatever the clock
\* says, and derive with freezePaused false shows the time from the clock to the
\* resume time, 0 once it has passed.
C17_PausedRemainingFrozen ==
  payoutControls.paused /\ payoutControls.pauseRemainingMs # {} =>
    /\ upcomingPayouts.remaining = the(payoutControls.pauseRemainingMs)
    /\ derivedWith({TRUE}).remaining = the(payoutControls.pauseRemainingMs)
    /\ derivedWith({FALSE}).remaining = Max(derivedWith({FALSE}).resumeAt - nowTs, 0)
\* Scenario C: the schedule of Scenario B paused half a day after the approval,
\* seen some time later.
C17_ScenarioC ==
  /\ Len(ops) = 1 /\ LastOp.op = "pause" /\ LastOp.row.control = NoControl
  /\ summary.nextPayoutAt = summary.lastApprovedAt + DAY_MS
  /\ LastOp.at = summary.lastApprovedAt + HALF_DAY
  /\ nowTs = LastOp.at + 1000
  /\ upcomingPayouts.status = "paused"
  /\ upcomingPayouts.resumeAt = summary.nextPayoutAt
  /\ payoutControls.pauseRemainingMs = {HALF_DAY}
  /\ upcomingPayouts.remaining = HALF_DAY
  /\ derivedWith({FALSE}).remaining = HALF_DAY - 1000

InBounds(p) == 0 <= p.num /\ p.num <= p.den /\ p.den > 0

\* C18: the progress of the row is between 0 and 1, and it is 1 exactly when
\* nothing remains and the payout is ready.
C18_FullOnlyWhenReady ==
  /\ InBounds(upcomingPayouts.progress)
  /\ Full(upcomingPayouts.progress) <=>
       (upcomingPayouts.remaining = 0 /\ upcomingPayouts.status = "ready")
\* C18 as amended: the progress of the row is between 0 and 1, and it is 1
\* exactly when nothing remains; the payout is then ready or, under a paused
\* control, paused, and a ready payout always has progress 1.
C18_FullWhenNothingRemains ==
  /\ InBounds(upcomingPayouts.progress)
  /\ Full(upcomingPayouts.progress) <=> upcomingPayouts.remaining = 0
  /\ Full(upcomingPayouts.progress) => upcomingPayouts.status \in {"ready", "paused"}
  /\ upcomingPayouts.status = "ready" => Full(upcomingPayouts.progress)
\* A paused control with nothing remaining.
C18_PausedAndFull ==
  /\ payoutControls.paused
  /\ upcomingPayouts.status = "paused"
  /\ upcomingPayouts.remaining = 0
  /\ Full(upcomingPayouts.progress)

\* Pause and then Resume were clicked with the clock at the same instant, and
\* the clock is still there.
PausedAndResumedAtOnce ==
  /\ Len(ops) = 2 /\ ops[1].op = "pause" /\ ops[2].op = "resume"
  /\ ops[1].at = ops[2].at /\ nowTs = ops[2].at

\* C20: after Pause and Resume at the same instant the row shows the remaining
\* time and the status it showed before the Pause.
C20_PauseResumeRoundTrip ==
  PausedAndResumedAtOnce =>
    /\ upcomingPayouts.remaining = ops[1].row.remaining
    /\ upcomingPayouts.status = ops[1].row.status
\* The round trip of a cycle that had not started: a second has been added.
C20_FutureCycleASecondLate ==
  /\ PausedAndResumedAtOnce
  /\ IsCycle(ops[1].row.control)
  /\ nowTs < the(ops[1].row.control.cycleStartAt)
  /\ upcomingPayouts.remaining = ops[1].row.remaining + 1000

\* The state right after a click of the given button.
Clicked(op) == ops # <<>> /\ LastOp.op = op /\ nowTs = LastOp.at
StoredResumeAt == the(payoutControls.resumeAt)

\* C21: Pause on a row that is not paused stores a paused control that resumes
\* at the later of the payout time the row showed and the clock (for a cycle
\* that time is its next boundary), never before the clock, with the time from
\* the clock to the resume time as the remaining time; Pause on a paused row
\* leaves the control as it is and sends nothing.
C21_PauseStores ==
  Clicked("pause") =>
    IF LastOp.row.status = "paused"
    THEN payoutControls = LastOp.row.control /\ out = <<>>
    ELSE /\ payoutControls.paused
         /\ payoutControls.resumeAt # {}
         /\ StoredResumeAt >= nowTs
         /\ payoutControls.pauseRemainingMs = {StoredResumeAt - nowTs}
         /\ StoredResumeAt = Max(LastOp.row.scheduledNextPayoutAt, nowTs)
\* Pause on a cycle that has not started: it resumes a second after its start.
C21_PausedASecondLate ==
  /\ Clicked("pause")
  /\ IsCycle(LastOp.row.control)
  /\ nowTs < the(LastOp.row.control.cycleStartAt)
  /\ StoredResumeAt = LastOp.row.scheduledNextPayoutAt + 1000

\* Pause took effect, Resume followed at some clock value, and the clock is
\* still there.
PausedThenResumed ==
  /\ Len(ops) = 2 /\ ops[1].op = "pause" /\ ops[1].row.status # "paused"
  /\ ops[2].op = "resume" /\ nowTs = ops[2].at

\* C22: Resume, however long after the Pause, stores a control that is not
\* paused and has no remaining time and no resume time, and the row then shows
\* the remaining time that the paused row showed just before the Resume.
C22_ResumeKeepsCountdown ==
  PausedThenResumed =>
    /\ ~payoutControls.paused
    /\ payoutControls.pauseRemainingMs = {} /\ payoutControls.resumeAt = {}
    /\ upcomingPayouts.remaining = ops[2].row.remaining
\* Resume a second after a Pause with half a day remaining: the countdown has
\* lost the second it was paused for.
C22_CountdownJumped ==
  /\ PausedThenResumed
  /\ ops[1].row.control = NoControl
  /\ ops[2].at = ops[1].at + 1000
  /\ ops[2].row.remaining = HALF_DAY
  /\ upcomingPayouts.remaining = HALF_DAY - 1000

\* A shift was clicked on a paused row without a cycle, and the clock is still
\* at the click.
ShiftedWhilePaused ==
  /\ Clicked("adjust") /\ LastOp.row.control.paused
  /\ ~LastOp.row.isCycle /\ LastOp.row.control.cycleStartAt = {}
ResumeAtBefore == the(LastOp.row.control.resumeAt)

\* C23: a shift by delta of a paused control without a cycle moves resumeAt by
\* exactly delta, stores the new resumeAt as adjustedNextPayoutAt too, stores
\* pauseRemainingMs = resumeAt - now, and the row stays paused.
C23_ShiftMovesResumeAt ==
  ShiftedWhilePaused =>
    /\ payoutControls.resumeAt = {ResumeAtBefore + LastOp.arg}
    /\ payoutControls.adjustedNextPayoutAt = payoutControls.resumeAt
    /\ payoutControls.pauseRemainingMs = {StoredResumeAt - nowTs}
    /\ upcomingPayouts.status = "paused"
\* C23 with the floors of the code: the new resumeAt is the shifted one, but
\* never before now and never less than a second after the approval time.
C23_ShiftMovesResumeAtNotBeforeNow ==
  ShiftedWhilePaused =>
    /\ payoutControls.resumeAt =
         {Max(Max(ResumeAtBefore + LastOp.arg, LastOp.row.lastApprovedAt + 1000), nowTs)}
    /\ payoutControls.adjustedNextPayoutAt = payoutControls.resumeAt
    /\ payoutControls.pauseRemainingMs = {StoredResumeAt - nowTs}
    /\ upcomingPayouts.status = "paused"
\* A payout due now is shifted back: it stays due now.
C23_ShiftedBackStaysAtNow ==
  /\ ShiftedWhilePaused /\ LastOp.arg < 0
  /\ ResumeAtBefore = nowTs /\ StoredResumeAt = nowTs
  /\ nowTs > LastOp.row.lastApprovedAt + 1000
\* Scenario D: +30m moves resumeAt forward by 1,800,000 ms.
C23_ScenarioD ==
  /\ ShiftedWhilePaused /\ LastOp.arg = 1800000
  /\ StoredResumeAt = ResumeAtBefore + 1800000
  /\ payoutControls.pauseRemainingMs = {StoredResumeAt - nowTs}

\* The next-payout time a stored control aims at: the end of the cycle that
\* starts at cycleStartAt, or the adjusted payout time.
ControlTarget(control) ==
  IF control.cycleStartAt # {}
  THEN the(control.cycleStartAt) + the(control.cycleMs)
  ELSE the(control.adjustedNextPayoutAt)

\* C24: after Edit time the stored target is never before now; without a cycle
\* it is also at least a second after the approval time; and the control is
\* paused exactly when it was paused before.
C24_EditedTargetNotBeforeNow ==
  Clicked("edit") =>
    /\ ControlTarget(payoutControls) >= nowTs
    /\ payoutControls.cycleStartAt = {} =>
         ControlTarget(payoutControls) >= LastOp.row.lastApprovedAt + 1000
    /\ payoutControls.paused <=> LastOp.row.control.paused
\* A payout without a cycle is set to a time that has passed, and that time is
\* stored as it is.
C24_SetToThePast ==
  /\ Clicked("edit") /\ LastOp.row.control = NoControl
  /\ LastOp.arg < nowTs /\ LastOp.arg >= LastOp.row.lastApprovedAt + 1000
  /\ payoutControls.adjustedNextPayoutAt = {LastOp.arg}

\* The cycle length Start uses: the one the row has, else a day.
StartCycleLength == IF LastOp.row.cycleMs # {} /\ the(LastOp.row.cycleMs) > 0
                    THEN the(LastOp.row.cycleMs) ELSE DAY_MS

\* C25: Start stores the control {cycleStartAt, cycleMs} whose cycleStartAt is
\* the later of now and the next-payout time the row showed (the derived one,
\* manual adjustment included), and whose cycleMs is the row's cycle length or
\* a day.
C25_StartFromScheduledNext ==
  Clicked("start") =>
    payoutControls =
      [NoControl EXCEPT !.cycleStartAt = {Max(LastOp.row.scheduledNextPayoutAt, nowTs)},
                        !.cycleMs = {StartCycleLength}]
\* A payout brought forward by hand is due, its base payout time is still
\* ahead: Start puts the cycle start at the base payout time.
C25_StartedFromBaseNext ==
  /\ Clicked("start") /\ IsManual(LastOp.row.control)
  /\ LastOp.row.scheduledNextPayoutAt <= nowTs /\ LastOp.row.baseNextPayoutAt > nowTs
  /\ payoutControls.cycleStartAt = {LastOp.row.baseNextPayoutAt}

\* C26: after Reset, whatever was stored and whatever was clicked before, no
\* control is stored and the row is the one of the base schedule alone: base
\* approval and payout times, the time left until the base payout time, ready
\* exactly when that time has come, no cycle.
C26_ResetRestoresBase ==
  Clicked("reset") =>
    /\ payoutControls = NoControl
    /\ upcomingPayouts.control = NoControl
    /\ upcomingPayouts.lastApprovedAt = summary.lastApprovedAt
    /\ upcomingPayouts.scheduledNextPayoutAt = summary.nextPayoutAt
    /\ upcomingPayouts.remaining = Max(summary.nextPayoutAt - nowTs, 0)
    /\ upcomingPayouts.status = IF summary.nextPayoutAt <= nowTs THEN "ready" ELSE "running"
    /\ ~upcomingPayouts.isCycle
\* Reset after another click that left a control which changed the row.
C26_ResetAfterAnotherClick ==
  /\ Clicked("reset") /\ Len(ops) = 2
  /\ ops[1].op \in {"pause", "adjust", "edit", "start"}
  /\ LastOp.row.control # NoControl
  /\ LastOp.row.scheduledNextPayoutAt # summary.nextPayoutAt
  /\ payoutControls = NoControl

\* Some button was clicked and the clock is still at the click.
ClickedAny == ops # <<>> /\ nowTs = LastOp.at

\* C27: a click changes the stored control and sends a write only when the
\* control it produces differs from the stored one: a write is sent exactly
\* when the stored control changed, it is a single write carrying the new
\* control, and a click that reproduces the stored control sends nothing.
C27_WritesOnlyChanges ==
  ClickedAny =>
    /\ out # <<>> <=> payoutControls # LastOp.row.control
    /\ out # <<>> =>
         /\ Len(out) = 1
         /\ out[1].kind = "updatePayoutControl"
         /\ out[1].control = payoutControls
\* The same time is set twice: the second click reproduces the stored control
\* and sends nothing.
C27_SameTimeSetTwice ==
  /\ ClickedAny /\ Len(ops) = 2
  /\ ops[1].op = "edit" /\ ops[2].op = "edit" /\ ops[1].arg = ops[2].arg
  /\ ops[1].row.control # ops[2].row.control
  /\ payoutControls = ops[2].row.control /\ out = <<>>

\* The kinds of override a control can carry.
HasPause(control) == control.paused
HasManualAdjust(control) ==
  control.adjustedLastApprovedAt # {} \/ control.adjustedNextPayoutAt # {}
HasCycle(control) == control.cycleStartAt # {}

\* C28: what sanitizeControlState keeps of a fetched control is no control
\* when the fetched one has no pause, no manual adjustment and no cycle start;
\* it carries pauseRemainingMs and resumeAt only when paused and cycleMs only
\* with a cycleStartAt; sanitizing it again changes nothing; and so a stored
\* control always has a pause, a manual adjustment or a cycle.
C28_SanitizedControls ==
  ~fetched.pending =>
    /\ (~HasPause(fetched.control) /\ ~HasManualAdjust(fetched.control)
          /\ ~HasCycle(fetched.control)) => payoutControls = NoControl
    /\ ~payoutControls.paused =>
         payoutControls.pauseRemainingMs = {} /\ payoutControls.resumeAt = {}
    /\ payoutControls.cycleStartAt = {} => payoutControls.cycleMs = {}
    /\ sanitizeControlState(payoutControls) = payoutControls
    /\ payoutControls # NoControl =>
         HasPause(payoutControls) \/ HasManualAdjust(payoutControls) \/ HasCycle(payoutControls)
\* A fetched record with only a resume time and a cycle length is dropped.
C28_StrayFieldsDropped ==
  /\ ~fetched.pending
  /\ fetched.control = [NoControl EXCEPT !.resumeAt = {DAY_MS}, !.cycleMs = {HALF_DAY}]
  /\ payoutControls = NoControl

\* The last approval, when nothing but the schedule effect has run since, and
\* the schedule the wallet has stored.
LastApproval ==
  CHOOSE i \in 1..Len(ops) :
    ops[i].op = "approve" /\ \A j \in (i + 1)..Len(ops) : ops[j].op = "effect"
JustApproved ==
  /\ ops # <<>> /\ LastOp.op = "effect" /\ LastOp.arg = 0
  /\ nowTs = ops[LastApproval].at
StoredBefore == ops[LastApproval].row
Stored == payoutStore[address]

\* C29: the first approval of a wallet without a schedule stores the approval
\* time and the approval time + 24 h; a later approval puts its token at the
\* head of the token list and leaves the times at what the schedule stored
\* before it derives to under the wallet's control: it does not restart the
\* interval.
C29_LaterApprovalKeepsInterval ==
  /\ Clicked("approve") /\ ~LastOp.row.exists =>
       /\ Stored.exists
       /\ Stored.lastApprovedAt = nowTs /\ Stored.nextPayoutAt = nowTs + DAY_MS
  /\ JustApproved /\ StoredBefore.exists =>
       /\ Stored.tokens # <<>>
       /\ metaKey(Stored.tokens[1])
            = approvedKey(ChainOf(ops[LastApproval].arg), TokAddr(ops[LastApproval].arg))
       /\ Stored.lastApprovedAt
            = derivedSchedule(StoredBefore, payoutControls, nowTs).lastApprovedAt
       /\ Stored.nextPayoutAt
            = derivedSchedule(StoredBefore, payoutControls, nowTs).nextPayoutAt
\* Without a control, a second approval half a day after the first: the stored
\* schedule starts again at the second approval.
C29_IntervalRestarted ==
  /\ JustApproved /\ StoredBefore.exists /\ payoutControls = NoControl
  /\ nowTs = StoredBefore.lastApprovedAt + HALF_DAY
  /\ Stored.lastApprovedAt = nowTs /\ Stored.nextPayoutAt = nowTs + DAY_MS
  /\ Len(Stored.tokens) = 2

\* The row of a started cycle that is not paused, as the clock stands at now:
\* the next payout is ahead, the remaining time is the time until it and is
\* positive, and the status is running.
Rolling(now) ==
  \E row \in {upcomingRow(summary, payoutControls, now)} :
    /\ row.scheduledNextPayoutAt > now
    /\ row.remaining = row.scheduledNextPayoutAt - now /\ row.remaining > 0
    /\ row.status = "running"
\* How many cycle boundaries lie at or before now.
Boundaries(now) == (now - CycleStart) \div CycleLength(payoutControls)

SwitchesInFlight ==
  {RunProc(r) : r \in {q \in Runs : run[q].pc = "switch"}}
    \cup (IF retry.pc = "switch" THEN {RetryProc} ELSE {})

\* C31: at most one chain-switch request is in flight at any moment, also
\* after two callers have waited on the same pending switch.
C31_OneSwitchInFlight == Cardinality(SwitchesInFlight) <= 1

\* Two switch requests are in flight; switching.current holds the later one.
C31_TwoSwitchesInFlight ==
  /\ Cardinality(SwitchesInFlight) = 2
  /\ switching \in SwitchesInFlight

\* ---------------------------------------------------------------------- C32
\* The reads of scan sc return in this step.
Returns(sc) == sc \in scans /\ scans' = scans \ {sc}

\* C32: a scan whose session was replaced while its reads were in flight writes
\* nothing when they return: rows, stats, totalEligible, the message, the
\* loading flag, scannedOnce, the approved set and the payout schedule stay as
\* they are, and no run is started.
C32_StaleScanWritesNothing ==
  [][\A sc \in scans :
       (Returns(sc) /\ sc.sessionId # sessionRef) =>
         UNCHANGED <<rows, stats, totalEligible, msg, loading, scannedOnce,
                     approvedRef, payoutStore, running, run>>]_vars

\* The scan of a replaced session is still in flight when the scan of the
\* current session has returned and listed its rows.
C32_StaleScanInFlight ==
  \E sc \in scans : sc.sessionId # sessionRef /\ scannedOnce /\ rows # <<>> /\ ~loading

\* ---------------------------------------------------------------------- C33
\* Every balance read and every allowance read that the last scan sent to
\* chain c failed, batched and per token.
AllReadsFailed(c) ==
  /\ rpc[c] # <<>>
  /\ \A fn \in ReadFns :
       /\ ZeroSuccess(c, fn)
       /\ \A i \in 1..Len(Singles(c, fn)) : Singles(c, fn)[i].thrown
ChainFailed(c) == TOKENS(c) # <<>> /\ (~HasRouter(c) \/ AllReadsFailed(c))
RowsOf(c) == SelectSeq(rows, LAMBDA row : ChainOf(row.tok) = c)

\* C33: after a completed scan, a chain without a router or with every read
\* failed is reported with ok = false and an error reason and has no eligible
\* token, and the other chains have their statistics and their tokens.
C33_ChainFailureReported ==
  Scanned =>
    /\ Len(stats) = Len(CHAINS_DEF)
    /\ \A k \in 1..Len(CHAINS_DEF) :
         LET c == CHAINS_DEF[k]
         IN IF ChainFailed(c)
            THEN /\ ~stats[k].ok /\ stats[k].error # <<>>
                 /\ stats[k].eligible = 0 /\ RowsOf(c) = <<>>
            ELSE /\ stats[k].eligible = Len(RowsOf(c))
                 /\ \A t \in Tokens : ChainOf(t) = c => (InRows(t) <=> ExpectedEligible(t))

\* Every read of a chain failed, the chain is reported with ok = true and
\* without an error, and a token of another chain is listed.
C33_OutageReportedOk ==
  /\ Scanned
  /\ \E k \in 1..Len(CHAINS_DEF) :
       /\ AllReadsFailed(CHAINS_DEF[k])
       /\ stats[k].ok /\ stats[k].error = <<>> /\ stats[k].eligible = 0
       /\ RowsOf(CHAINS_DEF[k]) = <<>>
  /\ rows # <<>>

\* ---------------------------------------------------------------------- C34
\* retryOne returns in this step, after markApproved or without it.
RetryReturns == RetryResumed /\ retry'.pc = "idle"
RetrySucceeds == RetryReturns /\ SentNext("approve") # {}

\* C34: a retryOne that succeeds in the session it was started in removes the
\* target token from rows and no other row, whatever happened to rows while
\* its requests were in flight; a retryOne that fails removes nothing.
C34_RetryRemovesTarget ==
  [][/\ (RetrySucceeds /\ sessionRef = retry.sessionId) =>
          rows' = Without(rows, retry.target.tok)
     /\ (RetryReturns /\ ~RetrySucceeds) => rows' = rows]_vars

\* In the only session so far a retryOne has just approved a token, and the
\* token is still listed.
C34_TargetStaysListed ==
  /\ sessionRef = 1 /\ retry.pc = "idle"
  /\ \E i \in Sent("approve") : InRows(out[i].token)

\* ---------------------------------------------------------------------- C35
BaseOf(entry) == <<entry.lastApprovedAt, entry.nextPayoutAt>>

\* C35: while the wallet makes no approval its stored base schedule stays what
\* it was before a control was applied, whatever controls the page loads and
\* derives from, so that after a reset the page derives from that base again.
C35_BaseOnlyFromApprovals == ops # <<>> => BaseOf(Stored) = BaseOf(ops[1].row)

\* A control was loaded and then reset, the effect has run after the reset,
\* and the stored base is not the one from before the control.
C35_ResetOnRewrittenBase ==
  /\ Len(ops) >= 4 /\ ops[1].op = "load"
  /\ LastOp.op = "effect" /\ LastOp.arg = 0 /\ payoutControls = NoControl
  /\ BaseOf(Stored) # BaseOf(ops[1].row)
  /\ derivedSchedule(Stored, payoutControls, nowTs).nextPayoutAt # ops[1].row.nextPayoutAt

\* ---------------------------------------------------------------------- C36
\* Shift was clicked on a row that is not paused, and the clock has not moved.
ShiftedUnpaused ==
  /\ ops # <<>> /\ LastOp.op = "adjust" /\ LastOp.at = nowTs
  /\ ~LastOp.row.control.paused
NextBefore == LastOp.row.scheduledNextPayoutAt
NextAfter == upcomingPayouts.scheduledNextPayoutAt
\* Shift by some delta and then by -delta, at one time, on a row not paused.
ShiftedThereAndBack ==
  /\ Len(ops) >= 2 /\ ShiftedUnpaused
  /\ ops[Len(ops) - 1].op = "adjust" /\ ops[Len(ops) - 1].at = nowTs
  /\ ~ops[Len(ops) - 1].row.control.paused
  /\ ops[Len(ops) - 1].arg = -LastOp.arg

\* C36: Shift by delta on a row that is not paused moves the next payout that
\* derive reports at the same time by exactly delta, for a cycle and for a
\* manual adjustment; Shift by delta and then by -delta restores it.
C36_ShiftMovesNextPayout ==
  /\ ShiftedUnpaused => NextAfter = NextBefore + LastOp.arg
  /\ ShiftedThereAndBack => NextAfter = ops[Len(ops) - 1].row.scheduledNextPayoutAt

\* The cycle had started; the shifted start lies after now, and the next
\* payout has moved to it: by delta less a cycle length.
C36_ShiftedIntoTheFuture ==
  /\ ShiftedUnpaused /\ LastOp.row.isCycle /\ LastOp.arg > 0
  /\ the(LastOp.row.control.cycleStartAt) <= nowTs
  /\ the(payoutControls.cycleStartAt) = the(LastOp.row.control.cycleStartAt) + LastOp.arg
  /\ the(payoutControls.cycleStartAt) > nowTs
  /\ NextAfter = NextBefore + LastOp.arg - the(payoutControls.cycleMs)

\* ---------------------------------------------------------------------- C37
\* C37: a paused wallet stays paused as time passes: whatever the clock, the
\* row of a paused control has status paused (also at and after its resume
\* time) and no other row has; the row the admin clicked on was paused and the
\* row is paused no more only after Resume or Reset.
C37_PausedStaysPaused ==
  /\ payoutControls.paused => upcomingPayouts.status = "paused"
  /\ upcomingPayouts.status = "paused" => payoutControls.paused
  /\ (ops # <<>> /\ LastOp.row.status = "paused" /\ upcomingPayouts.status # "paused")
       => LastOp.op \in {"resume", "reset"}

\* The admin paused the wallet, the clock went on to the resume time and past
\* it, and the row is still paused.
C37_PausedPastResumeAt ==
  /\ ops # <<>> /\ LastOp.op = "pause" /\ LastOp.at < nowTs
  /\ payoutControls.paused
  /\ nowTs >= upcomingPayouts.resumeAt
  /\ upcomingPayouts.status = "paused"

\* ---------------------------------------------------------------------- C38
\* The effect has just run: nothing else has happened since, the clock included.
EffectRan == ops # <<>> /\ LastOp.op = "effect" /\ LastOp.at = nowTs

NamedNext == SentNext("approve") \cup SentNext("signTypedData")

\* C39: a run started in the session of the connected wallet (no other wallet
\* has been connected since it started, so its queue was scanned for this one)
\* names that wallet in every 'approve' event it emits and every permit it
\* builds, and writes the payout schedule of no other wallet.
C39_ApprovalsNameConnectedWallet ==
  [][\A r \in Runs :
       (Resumed(r) /\ ~Stale(r)) =>
         /\ \A i \in NamedNext : out'[i].address = address
         /\ \A a \in Addrs : payoutStore'[a] # payoutStore[a] => a = address]_vars

\* Wallet B took the place of wallet A without a disconnect; the run started
\* for B on the tokens scanned for B has approved one of them: the event names
\* A and the schedule written is A's.
C39_ApprovedForFormerWallet ==
  /\ address = "B" /\ lastAddressRef = "B" /\ cb.address = "A"
  /\ \E r \in Runs : run[r].pc \notin {"idle", "done"} /\ ~Stale(r) /\ run[r].address = "A"
  /\ \E i \in Sent("approve") : out[i].address = "A"
  /\ payoutStore["A"].exists /\ ~payoutStore["B"].exists
====
